---- MODULE Spec2Model ----
(***************************************************************************)
(* Model of the email-authentication assessment engine:                    *)
(*   analisador_cabecalho.py  EmailHeaderAnalyzer  (header pipeline)       *)
(*   email_auth_fix.py        EmailAuthChecker     (DNS pipeline)          *)
(*                                                                         *)
(* A text (Python str) is a sequence of characters; a character is a       *)
(* one-character string, except the few characters TLA+ strings cannot     *)
(* hold, which are named atoms (TAB, NL, DQ, A_TILDE, ...).                 *)
(* Optional[T] is a sequence of length 0 (None) or 1 (a value).            *)
(***************************************************************************)
EXTENDS Naturals, Integers, Sequences, FiniteSets, TLC

VARIABLES
    header_text,      \* analyze_header's argument
    headers,          \* EmailHeaderAnalyzer.results["headers"]
    authentication,   \* EmailHeaderAnalyzer.results["authentication"]
    issues,           \* EmailHeaderAnalyzer.results["issues"]
    recommendations,  \* EmailHeaderAnalyzer.results["recommendations"]
    occ,              \* index of the Authentication-Results occurrence being parsed
    pc,               \* position of the run inside analyze_header
    domain,           \* EmailAuthChecker.domain
    results,          \* EmailAuthChecker.results
    found_selectors,  \* check_dkim's local list
    sel,              \* check_dkim's loop index into the selectors
    lookups,          \* the resolver calls made so far: name, record type, answered or not
    answer,           \* the resolver outcome handed to a handler run on its own
    cpc,              \* position of the run inside check_all
    argv,             \* the parsed command line (args) of a main() run
    stdout,           \* the lines main() has printed to standard output
    stderr,           \* the lines main() has printed to the error stream
    exit_code,        \* main()'s return value, once it has returned
    files,            \* the paths export_json has written
    mpc               \* position of the run inside main()

(***************************************************************************)
(* Characters and character classes                                        *)
(***************************************************************************)
TAB == "<TAB>"
NL == "<NL>"
DQ == "<DQ>"
A_TILDE == "<a~>"
C_CEDIL == "<c,>"
I_ACUTE == "<i'>"
NOT_EQ == "<!=>"

LowerLetters ==
    <<"a","b","c","d","e","f","g","h","i","j","k","l","m",
      "n","o","p","q","r","s","t","u","v","w","x","y","z">>

UpperLetters ==
    <<"A","B","C","D","E","F","G","H","I","J","K","L","M",
      "N","O","P","Q","R","S","T","U","V","W","X","Y","Z">>

Digits == {"0","1","2","3","4","5","6","7","8","9"}

\* \w of the re module (ASCII part)
WordChars ==
    {LowerLetters[i] : i \in 1..26} \cup {UpperLetters[i] : i \in 1..26}
        \cup Digits \cup {"_"}

\* \s of the re module, str.isspace, and the characters str.strip() removes
SpaceChars == {" ", TAB, NL}

\* [\w.-]
AddrChars == WordChars \cup {".", "-"}

AllChars ==
    WordChars \cup SpaceChars
        \cup {".", "-", "=", "(", ")", ":", ";", "@", "<", ">", "~", ",", "'", "%",
              DQ, A_TILDE, C_CEDIL, I_ACUTE, NOT_EQ}

(***************************************************************************)
(* Optional values                                                         *)
(***************************************************************************)
None == <<>>

Some(v) == <<v>>

\* Python truth of an Optional[str]: None and "" are false
Truthy(opt) == opt # None /\ opt[1] # <<>>

(***************************************************************************)
(* Text primitives: str methods and the `in` operator                       *)
(***************************************************************************)
Min(S) == CHOOSE x \in S : \A y \in S : x <= y

Max(S) == CHOOSE x \in S : \A y \in S : x >= y

LowerChar(c) ==
    IF \E i \in 1..26 : UpperLetters[i] = c
    THEN LowerLetters[CHOOSE i \in 1..26 : UpperLetters[i] = c]
    ELSE c

\* str.lower()
Lower(s) == [i \in 1..Len(s) |-> LowerChar(s[i])]

\* str.strip()
Strip(s) ==
    LET keep == {i \in 1..Len(s) : s[i] \notin SpaceChars}
    IN  IF keep = {} THEN <<>> ELSE SubSeq(s, Min(keep), Max(keep))

\* str.strip('"')
StripQuotes(s) ==
    LET keep == {i \in 1..Len(s) : s[i] # DQ}
    IN  IF keep = {} THEN <<>> ELSE SubSeq(s, Min(keep), Max(keep))

\* s[i:].startswith(lit), positions counted from 1
MatchAt(s, i, lit) ==
    /\ i >= 1
    /\ i + Len(lit) - 1 <= Len(s)
    /\ SubSeq(s, i, i + Len(lit) - 1) = lit

StartsWith(s, lit) == MatchAt(s, 1, lit)

EndsWith(s, lit) == MatchAt(s, Len(s) - Len(lit) + 1, lit)

\* lit in s
Contains(s, lit) == \E i \in 1..(Len(s) + 1) : MatchAt(s, i, lit)

\* length of the longest run of characters of class C that starts at position i
RunLen(s, i, C) ==
    LET stops == {j \in i..Len(s) : s[j] \notin C}
    IN  IF i > Len(s) THEN 0
        ELSE IF stops = {} THEN Len(s) - i + 1
        ELSE Min(stops) - i

\* first position >= i holding character c, 0 when there is none
IndexFrom(s, i, c) ==
    LET at == {j \in i..Len(s) : s[j] = c}
    IN  IF at = {} THEN 0 ELSE Min(at)

RECURSIVE Concat(_)
Concat(ss) == IF ss = <<>> THEN <<>> ELSE Head(ss) \o Concat(Tail(ss))

RECURSIVE JoinWith(_, _)
JoinWith(ss, sep) ==
    IF ss = <<>> THEN <<>>
    ELSE IF Len(ss) = 1 THEN ss[1]
    ELSE ss[1] \o sep \o JoinWith(Tail(ss), sep)

\* str.splitlines() for the line terminator \n
RECURSIVE splitlines(_)
splitlines(t) ==
    IF t = <<>> THEN <<>>
    ELSE LET k == IndexFrom(t, 1, NL)
         IN  IF k = 0 THEN <<t>>
             ELSE <<SubSeq(t, 1, k - 1)>> \o splitlines(SubSeq(t, k + 1, Len(t)))

\* str.replace(a, b) for single characters
ReplaceChar(s, a, b) == [i \in 1..Len(s) |-> IF s[i] = a THEN b ELSE s[i]]

(***************************************************************************)
(* EmailHeaderAnalyzer: header field extraction                            *)
(***************************************************************************)
EmptyHeaders ==
    [from |-> None, return_path |-> None, sender |-> None,
     received_spf |-> None, authentication_results |-> <<>>]

EmptyAuthentication == [spf |-> None, dkim |-> None, dmarc |-> None, arc |-> None]

save_header_field(hdrs, field, value) ==
    IF field = <<"f","r","o","m">> THEN [hdrs EXCEPT !.from = Some(value)]
    ELSE IF field = <<"r","e","t","u","r","n","-","p","a","t","h">> THEN [hdrs EXCEPT !.return_path = Some(value)]
    ELSE IF field = <<"s","e","n","d","e","r">> THEN [hdrs EXCEPT !.sender = Some(value)]
    ELSE IF field = <<"r","e","c","e","i","v","e","d","-","s","p","f">> THEN [hdrs EXCEPT !.received_spf = Some(value)]
    ELSE IF field = <<"a","u","t","h","e","n","t","i","c","a","t","i","o","n","-","r","e","s","u","l","t","s">>
    THEN [hdrs EXCEPT !.authentication_results = Append(@, value)]
    ELSE IF field = <<"a","r","c","-","a","u","t","h","e","n","t","i","c","a","t","i","o","n","-","r","e","s","u","l","t","s">>
    THEN [hdrs EXCEPT !.authentication_results = Append(@, <<"A","R","C",":"," ">> \o value)]
    ELSE hdrs

\* current_value += " " + line.strip()
append_continuation(current_value, line) == current_value \o <<" ">> \o Strip(line)

\* the loop of _extract_header_fields from line i on, then the final save
RECURSIVE extract_loop(_, _, _, _, _)
extract_loop(lines, i, current_field, current_value, hdrs) ==
    IF i > Len(lines)
    THEN IF Truthy(current_field)
         THEN save_header_field(hdrs, current_field[1], current_value)
         ELSE hdrs
    ELSE LET line == lines[i] IN
         IF Strip(line) = <<>>
         THEN extract_loop(lines, i + 1, current_field, current_value, hdrs)
         ELSE IF line[1] \in SpaceChars
         THEN extract_loop(lines, i + 1, current_field,
                           IF Truthy(current_field)
                           THEN append_continuation(current_value, line)
                           ELSE current_value,
                           hdrs)
         ELSE LET saved == IF Truthy(current_field)
                           THEN save_header_field(hdrs, current_field[1], current_value)
                           ELSE hdrs
                  k == IndexFrom(line, 1, ":")
              IN  IF k # 0
                  THEN extract_loop(lines, i + 1,
                                    Some(Lower(SubSeq(line, 1, k - 1))),
                                    Strip(SubSeq(line, k + 1, Len(line))),
                                    saved)
                  ELSE extract_loop(lines, i + 1, None, <<>>, saved)

extract_header_fields(hdrs, lines) == extract_loop(lines, 1, None, <<>>, hdrs)

(***************************************************************************)
(* EmailHeaderAnalyzer: the regular expressions                            *)
(***************************************************************************)
\* re.search(r'\((.*?)\)', s): group 1, or None
re_first_paren(s) ==
    LET p == IndexFrom(s, 1, "(")
        q == IF p = 0 THEN 0 ELSE IndexFrom(s, p + 1, ")")
    IN  IF q = 0 THEN None ELSE Some(SubSeq(s, p + 1, q - 1))

\* start positions of matches of  <mech>=\w+
mech_starts(s, mech) ==
    {i \in 1..Len(s) :
        /\ MatchAt(s, i, mech \o <<"=">>)
        /\ RunLen(s, i + Len(mech) + 1, WordChars) >= 1}

\* re.search(r'<mech>=(\w+)', s): group 1, or None
re_mech_result(s, mech) ==
    LET starts == mech_starts(s, mech)
    IN  IF starts = {} THEN None
        ELSE LET i == Min(starts)
                 b == i + Len(mech) + 1
             IN  Some(SubSeq(s, b, b + RunLen(s, b, WordChars) - 1))

\* position of the "(" of a match of  <mech>=\w+\s+\((.*?)\)  starting at i, or 0
reason_open_at(s, i, mech) ==
    LET b == i + Len(mech) + 1
        w == RunLen(s, b, WordChars)
        sp == RunLen(s, b + w, SpaceChars)
        p == b + w + sp
    IN  IF /\ MatchAt(s, i, mech \o <<"=">>)
           /\ w >= 1
           /\ sp >= 1
           /\ p <= Len(s)
           /\ s[p] = "("
           /\ IndexFrom(s, p + 1, ")") # 0
        THEN p ELSE 0

\* re.search(r'<mech>=\w+\s+\((.*?)\)', s): group 1, or None
re_mech_reason(s, mech) ==
    LET starts == {i \in 1..Len(s) : reason_open_at(s, i, mech) # 0}
    IN  IF starts = {} THEN None
        ELSE LET p == reason_open_at(s, Min(starts), mech)
             IN  Some(SubSeq(s, p + 1, IndexFrom(s, p + 1, ")") - 1))

\* a match of  header\.\w+=(\S+)  at position k
header_tag_at(s, k) ==
    LET b == k + 7
        w == RunLen(s, b, WordChars)
    IN  /\ MatchAt(s, k, <<"h","e","a","d","e","r",".">>)
        /\ w >= 1
        /\ b + w <= Len(s)
        /\ s[b + w] = "="
        /\ RunLen(s, b + w + 1, AllChars \ SpaceChars) >= 1

\* re.search(r'dkim=\w+.*?header\.\w+=(\S+)', s): group 1, or None
re_dkim_selector(s) ==
    LET tags(i) == {k \in (i + 6)..Len(s) : header_tag_at(s, k)}
        starts == {i \in mech_starts(s, <<"d","k","i","m">>) : tags(i) # {}}
    IN  IF starts = {} THEN None
        ELSE LET k == Min(tags(Min(starts)))
                 v == k + 7 + RunLen(s, k + 7, WordChars) + 1
             IN  Some(SubSeq(s, v, v + RunLen(s, v, AllChars \ SpaceChars) - 1))

\* position of the "@" of a match of  <?([\w.-]+@([\w.-]+))>?  starting at i, or 0
address_at(s, i) ==
    LET b == IF s[i] = "<" THEN i + 1 ELSE i
        r == RunLen(s, b, AddrChars)
    IN  IF /\ r >= 1
           /\ b + r <= Len(s)
           /\ s[b + r] = "@"
           /\ RunLen(s, b + r + 1, AddrChars) >= 1
        THEN b + r ELSE 0

\* _extract_domain_from_email
extract_domain_from_email(email_header) ==
    IF ~Truthy(email_header) THEN None
    ELSE LET s == email_header[1]
             starts == {i \in 1..Len(s) : address_at(s, i) # 0}
         IN  IF starts = {} THEN None
             ELSE LET a == address_at(s, Min(starts))
                  IN  Some(SubSeq(s, a + 1, a + RunLen(s, a + 1, AddrChars)))

(***************************************************************************)
(* EmailHeaderAnalyzer: verdicts                                           *)
(***************************************************************************)
explanation_of(m) == IF m = None THEN <<>> ELSE m[1]

\* _extract_spf_from_received_spf: re.search(r'^(\w+)', spf_text), then the reason
extract_spf_from_received_spf(spf_text) ==
    LET n == RunLen(spf_text, 1, WordChars)
    IN  IF n = 0 THEN None
        ELSE Some([result |-> Lower(SubSeq(spf_text, 1, n)),
                   explanation |-> explanation_of(re_first_paren(spf_text))])

\* the verdict one occurrence gives for spf, dmarc or arc, or None
verdict_in(auth_result, mech) ==
    LET m == re_mech_result(auth_result, mech)
    IN  IF m = None THEN None
        ELSE Some([result |-> Lower(m[1]),
                   explanation |-> explanation_of(re_mech_reason(auth_result, mech))])

\* the verdict one occurrence gives for dkim, or None
dkim_verdict_in(auth_result) ==
    LET m == re_mech_result(auth_result, <<"d","k","i","m">>)
    IN  IF m = None THEN None
        ELSE Some([result |-> Lower(m[1]),
                   explanation |-> explanation_of(re_mech_reason(auth_result, <<"d","k","i","m">>)),
                   selector |-> explanation_of(re_dkim_selector(auth_result))])

\* the SPF part of _extract_from_authentication_results
extract_spf(auth, auth_result) ==
    LET v == verdict_in(auth_result, <<"s","p","f">>)
    IN  IF v # None /\ auth.spf = None THEN v ELSE auth.spf

\* the DKIM, DMARC and ARC parts: an occurrence that supplies the token overwrites
overwrite_with(old, v) == IF v # None THEN v ELSE old

\* _extract_from_authentication_results
extract_from_authentication_results(auth, auth_result) ==
    [spf |-> extract_spf(auth, auth_result),
     dkim |-> overwrite_with(auth.dkim, dkim_verdict_in(auth_result)),
     dmarc |-> overwrite_with(auth.dmarc, verdict_in(auth_result, <<"d","m","a","r","c">>)),
     arc |-> overwrite_with(auth.arc, verdict_in(auth_result, <<"a","r","c">>))]

\* the Received-SPF part of _analyze_authentication
analyze_received_spf(auth, hdrs) ==
    IF Truthy(hdrs.received_spf)
    THEN [auth EXCEPT !.spf = extract_spf_from_received_spf(hdrs.received_spf[1])]
    ELSE auth

(***************************************************************************)
(* EmailHeaderAnalyzer: issues                                             *)
(***************************************************************************)
\* "<M> não encontrado nos cabeçalhos"
not_found_issue(M) == M \o <<" ","n",A_TILDE,"o"," ","e","n","c","o","n","t","r","a","d","o"," ","n","o","s"," ","c","a","b","e",C_CEDIL,"a","l","h","o","s">>

\* f"Falha de <M>: {result} - {explanation}"
failure_issue(M, verdict) ==
    <<"F","a","l","h","a"," ","d","e"," ">> \o M \o <<":"," ">> \o verdict.result \o <<" ","-"," ">> \o verdict.explanation

\* f"Desalinhamento de domínio: From ({from_domain}) ≠ Return-Path ({return_path_domain})"
mismatch_issue(from_domain, return_path_domain) ==
    <<"D","e","s","a","l","i","n","h","a","m","e","n","t","o"," ","d","e"," ","d","o","m",I_ACUTE,"n","i","o",":"," ","F","r","o","m"," ","(">> \o from_domain \o <<")"," ">> \o <<NOT_EQ>>
        \o <<" ","R","e","t","u","r","n","-","P","a","t","h"," ","(">> \o return_path_domain \o <<")">>

\* mutant of mechanism_issues: a mechanism without a verdict is passed over in silence
mechanism_issues_silent(M, verdict) ==
    IF verdict = None THEN <<>>
    ELSE IF verdict[1].result # <<"p","a","s","s">> THEN <<failure_issue(M, verdict[1])>>
    ELSE <<>>

\* mutant of mechanism_issues: only the result "fail" counts as a failure
mechanism_issues_only_fail(M, verdict) ==
    IF verdict = None THEN <<not_found_issue(M)>>
    ELSE IF verdict[1].result = <<"f","a","i","l">> THEN <<failure_issue(M, verdict[1])>>
    ELSE <<>>

\* the check of one mechanism in _identify_issues: the issues it appends
mechanism_issues(M, verdict) ==
    IF verdict = None THEN <<not_found_issue(M)>>
    ELSE IF verdict[1].result # <<"p","a","s","s">> THEN <<failure_issue(M, verdict[1])>>
    ELSE <<>>

\* mutant of alignment_issues: the two domains are compared case-folded
alignment_issues_casefold(hdrs) ==
    LET from_domain == extract_domain_from_email(hdrs.from)
        return_path_domain == extract_domain_from_email(hdrs.return_path)
    IN  IF from_domain # None /\ return_path_domain # None
           /\ Lower(from_domain[1]) # Lower(return_path_domain[1])
        THEN <<mismatch_issue(from_domain[1], return_path_domain[1])>>
        ELSE <<>>

\* the alignment check of _identify_issues: the issues it appends
alignment_issues(hdrs) ==
    LET from_domain == extract_domain_from_email(hdrs.from)
        return_path_domain == extract_domain_from_email(hdrs.return_path)
    IN  IF from_domain # None /\ return_path_domain # None
           /\ from_domain # return_path_domain
        THEN <<mismatch_issue(from_domain[1], return_path_domain[1])>>
        ELSE <<>>

\* _identify_issues: the issue list after it
identify_issues(iss, auth, hdrs) ==
    iss \o mechanism_issues(<<"S","P","F">>, auth.spf)
        \o mechanism_issues(<<"D","K","I","M">>, auth.dkim)
        \o mechanism_issues(<<"D","M","A","R","C">>, auth.dmarc)
        \o alignment_issues(hdrs)

(***************************************************************************)
(* EmailHeaderAnalyzer: recommendations.  A recommendation is the pair of  *)
(* the f-string it comes from and the domain printed into it.              *)
(***************************************************************************)
\* the flag the loop over the issues sets for mechanism M
issue_flag(iss, M) == \E i \in 1..Len(iss) : Contains(iss[i], M)

\* f"{from_domain}" : None prints as the text None
domain_text(from_domain) == IF from_domain = None THEN <<"N","o","n","e">> ELSE from_domain[1]

\* _generate_recommendations: the recommendation list after it
generate_recommendations(recs, iss, hdrs) ==
    LET spf_issue == issue_flag(iss, <<"S","P","F">>)
        dkim_issue == issue_flag(iss, <<"D","K","I","M">>)
        dmarc_issue == issue_flag(iss, <<"D","M","A","R","C">>)
        from_domain == extract_domain_from_email(hdrs.from)
        has_domain == from_domain # None /\ from_domain[1] # <<>>
    IN  recs
        \o (IF spf_issue /\ has_domain
            THEN << <<"Verifique seu registro SPF", from_domain[1]>>,
                    <<"Registro SPF recomendado", <<>> >> >>
            ELSE <<>>)
        \o (IF dkim_issue /\ has_domain
            THEN << <<"Verifique se o DKIM esta habilitado", from_domain[1]>> >>
            ELSE <<>>)
        \o (IF dmarc_issue /\ has_domain
            THEN << <<"Configure um registro DMARC", from_domain[1]>> >>
            ELSE <<>>)
        \o (IF spf_issue \/ dkim_issue \/ dmarc_issue
            THEN << <<"Use o script principal", domain_text(from_domain)>> >>
            ELSE <<>>)

(***************************************************************************)
(* EmailAuthChecker.  An issue is the pair of the message it comes from    *)
(* and the text printed into it; a command is the f-string it comes from   *)
(* with the texts printed into it.                                         *)
(***************************************************************************)
SPF_NOT_FOUND == "Registro SPF nao encontrado"
SPF_MULTIPLE == "Multiplos registros SPF encontrados (apenas um e permitido)"
SPF_NO_INCLUDE == "Registro SPF nao inclui spf.protection.outlook.com"
SPF_NO_ALL == "Registro SPF nao possui mecanismo de protecao 'all' adequado"
SPF_ERROR == "Erro ao consultar registro SPF: {str(e)}"
DKIM_SELECTOR_NOT_FOUND == "Registro DKIM para seletor '{selector}' nao encontrado"
DKIM_NONE_FOUND == "Nenhum registro DKIM para Microsoft 365 encontrado"
DKIM_REQUIRES_TWO == "Microsoft 365 requer dois registros DKIM (selector1 e selector2)"
DKIM_TENANT_PLACEHOLDER == "Nao foi possivel determinar o dominio do tenant do Microsoft 365"
DMARC_NOT_FOUND == "Registro DMARC nao encontrado"
DMARC_NO_POLICY == "Politica DMARC (p=) nao especificada"
DMARC_POLICY_NONE == "Politica DMARC configurada como 'none' (monitoramento apenas)"
DMARC_NO_RUA == "Relatorios de DMARC (rua=) nao configurados"
DMARC_PARTIAL == "Porcentagem DMARC (pct={pct_value}) menor que 100% - aplicacao parcial"
DMARC_ERROR == "Erro ao consultar registro DMARC: {str(e)}"

Issue(msg, arg) == [msg |-> msg, arg |-> arg]

Command(template, args) == [template |-> template, args |-> args]

\* EmailAuthChecker.__init__: self.results
EmptyResults ==
    [records |-> [spf |-> None, dkim |-> None, dmarc |-> None],
     issues |-> <<>>,
     recommendations |-> [spf |-> None, dkim |-> None, dmarc |-> None],
     commands |-> [bind9 |-> <<>>, powershell |-> <<>>, azure_cli |-> <<>>]]

add_issue(res, issue) == [res EXCEPT !.issues = Append(@, issue)]

add_issues(res, iss) == [res EXCEPT !.issues = @ \o iss]

\* [f(x) for x in xs]
RECURSIVE MapSeq(_, _)
MapSeq(f(_), xs) == IF xs = <<>> THEN <<>> ELSE <<f(Head(xs))>> \o MapSeq(f, Tail(xs))

\* [str(rdata).strip('"') for rdata in answers if str(rdata).startswith('"' + tag)]
txt_candidates(answers, tag) ==
    LET starts(a) == StartsWith(a, <<DQ>> \o tag)
    IN  MapSeq(StripQuotes, SelectSeq(answers, starts))

(***************************************************************************)
(* EmailAuthChecker: recommendations                                       *)
(***************************************************************************)
\* mutant of recommend_spf_record: a record without an issue gets no recommendation
recommend_spf_record_on_issue(res) ==
    IF res.issues = <<>> THEN res
    ELSE [res EXCEPT !.recommendations.spf =
             Some(<<"v","=","s","p","f","1"," ","i","n","c","l","u","d","e",":","s","p","f",".","p","r","o","t","e","c","t","i","o","n",".","o","u","t","l","o","o","k",".","c","o","m"," ","-","a","l","l">>)]

\* _recommend_spf_record
recommend_spf_record(res) ==
    [res EXCEPT !.recommendations.spf =
        Some(<<"v","=","s","p","f","1"," ","i","n","c","l","u","d","e",":","s","p","f",".","p","r","o","t","e","c","t","i","o","n",".","o","u","t","l","o","o","k",".","c","o","m"," ","-","a","l","l">>)]

\* _recommend_dmarc_record
recommend_dmarc_record(res, dom) ==
    LET admin_email == <<"a","d","m","i","n","@">> \o dom
    IN  [res EXCEPT !.recommendations.dmarc =
            Some(<<"v","=","D","M","A","R","C","1",";"," ","p","=","q","u","a","r","a","n","t","i","n","e",";"," ","p","c","t","=","1","0","0",";"," ","r","u","a","=","m","a","i","l","t","o",":">> \o admin_email
                 \o <<";"," ","r","u","f","=","m","a","i","l","t","o",":">> \o admin_email \o <<";"," ","f","o","=","1">>)]

NotDot == AllChars \ {"."}

\* re.search(r'_domainkey\.([^.]+\.onmicrosoft\.com)\.?$', cname_value): group 1, or None
re_tenant(cname_value) ==
    LET s == cname_value
        suffix == <<".","o","n","m","i","c","r","o","s","o","f","t",".","c","o","m">>
        ends(stop) == stop = Len(s) + 1 \/ (stop = Len(s) /\ s[stop] = ".")
        label(i) == RunLen(s, i + 11, NotDot)
        starts == {i \in 1..Len(s) :
                      /\ MatchAt(s, i, <<"_","d","o","m","a","i","n","k","e","y",".">>)
                      /\ \E n \in {label(i)} :
                            /\ n >= 1
                            /\ MatchAt(s, i + 11 + n, suffix)
                            /\ ends(i + 11 + n + Len(suffix))}
    IN  IF starts = {} THEN None
        ELSE Some(CHOOSE group \in {SubSeq(s, i + 11, i + 10 + label(i) + Len(suffix)) :
                                      i \in {Min(starts)}} : TRUE)

\* mutant of first_tenant: the last CNAME selector whose target names a tenant
RECURSIVE last_tenant(_)
last_tenant(found) ==
    IF found = <<>> THEN None
    ELSE IF last_tenant(Tail(found)) # None THEN last_tenant(Tail(found))
    ELSE IF Head(found).type = "CNAME" THEN re_tenant(Head(found).record)
    ELSE None

\* _extract_tenant_domain: the first CNAME selector whose target names a tenant
RECURSIVE first_tenant(_)
first_tenant(found) ==
    IF found = <<>> THEN None
    ELSE IF Head(found).type = "CNAME" /\ re_tenant(Head(found).record) # None
    THEN re_tenant(Head(found).record)
    ELSE first_tenant(Tail(found))

extract_tenant_domain(res) ==
    IF res.records.dkim # None /\ res.records.dkim[1] # <<>>
    THEN first_tenant(res.records.dkim[1])
    ELSE None

dkim_recommendation(selector, dom, tenant_domain) ==
    [selector |-> selector,
     host |-> selector \o <<".","_","d","o","m","a","i","n","k","e","y",".">> \o dom,
     value |-> selector \o <<"-">> \o ReplaceChar(dom, ".", "-")
                   \o <<".","_","d","o","m","a","i","n","k","e","y",".">> \o tenant_domain,
     type |-> "CNAME"]

\* _recommend_dkim_records
recommend_dkim_records(res, dom) ==
    LET found == extract_tenant_domain(res)
        tenant_domain == IF Truthy(found) THEN found[1] ELSE <<"t","e","n","a","n","t",".","o","n","m","i","c","r","o","s","o","f","t",".","c","o","m">>
        noted == IF Truthy(found) THEN res
                 ELSE add_issue(res, Issue(DKIM_TENANT_PLACEHOLDER, <<>>))
    IN  [noted EXCEPT !.recommendations.dkim =
            Some(<<dkim_recommendation(<<"s","e","l","e","c","t","o","r","1">>, dom, tenant_domain),
                   dkim_recommendation(<<"s","e","l","e","c","t","o","r","2">>, dom, tenant_domain)>>)]

(***************************************************************************)
(* EmailAuthChecker: check_spf.  A resolver outcome is an answer (the      *)
(* str() of each rdata, in answer order) or a dns.exception.DNSException.  *)
(***************************************************************************)
Answer(rdatas) == [ok |-> TRUE, answers |-> rdatas, error |-> <<>>]

Failure(text) == [ok |-> FALSE, answers |-> <<>>, error |-> text]

\* the include and "all" checks on the chosen record
spf_shape_issues(spf_record) ==
    (IF ~Contains(spf_record, <<"i","n","c","l","u","d","e",":","s","p","f",".","p","r","o","t","e","c","t","i","o","n",".","o","u","t","l","o","o","k",".","c","o","m">>)
     THEN <<Issue(SPF_NO_INCLUDE, <<>>)>> ELSE <<>>)
    \o (IF ~Contains(spf_record, <<"~","a","l","l">>) /\ ~Contains(spf_record, <<"-","a","l","l">>)
        THEN <<Issue(SPF_NO_ALL, <<>>)>> ELSE <<>>)

\* the issue for more than one candidate
spf_multiple_issues(spf_records) ==
    IF Len(spf_records) > 1 THEN <<Issue(SPF_MULTIPLE, <<>>)>> ELSE <<>>

\* mutant of spf_chosen: the last candidate is taken
spf_chosen_last(spf_records) == spf_records[Len(spf_records)]

\* the record chosen among the candidates
spf_chosen(spf_records) == spf_records[1]

\* mutant of spf_lookup_failed: the exception is swallowed without an issue
spf_lookup_failed_silent(res, error) == recommend_spf_record(res)

\* the except branch of check_spf
spf_lookup_failed(res, error) ==
    recommend_spf_record(add_issue(res, Issue(SPF_ERROR, error)))

check_spf(res, outcome) ==
    IF ~outcome.ok THEN spf_lookup_failed(res, outcome.error)
    ELSE LET spf_records == txt_candidates(outcome.answers, <<"v","=","s","p","f","1">>)
         IN  IF spf_records = <<>>
             THEN recommend_spf_record(
                      [add_issue(res, Issue(SPF_NOT_FOUND, <<>>))
                          EXCEPT !.records.spf = None])
             ELSE LET spf_record == spf_chosen(spf_records)
                      multi == add_issues(res, spf_multiple_issues(spf_records))
                      kept == [multi EXCEPT !.records.spf = Some(spf_record)]
                  IN  recommend_spf_record(add_issues(kept, spf_shape_issues(spf_record)))

(***************************************************************************)
(* EmailAuthChecker: check_dkim, one resolver call at a time               *)
(***************************************************************************)
Selectors == << <<"s","e","l","e","c","t","o","r","1">>, <<"s","e","l","e","c","t","o","r","2">> >>

dkim_name(selector, dom) == selector \o <<".","_","d","o","m","a","i","n","k","e","y",".">> \o dom

\* found_selectors.append(...) after a CNAME answer
found_cname(found, selector, outcome) ==
    Append(found, [selector |-> selector, record |-> outcome.answers[1], type |-> "CNAME"])

\* found_selectors.append(...) after a TXT answer
found_txt(found, selector, outcome) ==
    Append(found, [selector |-> selector, record |-> StripQuotes(outcome.answers[1]),
                   type |-> "TXT"])

\* the inner except branch: neither record type resolved
dkim_selector_missing(res, selector) ==
    add_issue(res, Issue(DKIM_SELECTOR_NOT_FOUND, selector))

\* mutant of dkim_count_issues: one message for any number below two
dkim_count_issues_merged(found) ==
    IF Len(found) < 2 THEN <<Issue(DKIM_REQUIRES_TWO, <<>>)>> ELSE <<>>

\* the issue on the number of selectors found
dkim_count_issues(found) ==
    IF found = <<>> THEN <<Issue(DKIM_NONE_FOUND, <<>>)>>
    ELSE IF Len(found) < 2 THEN <<Issue(DKIM_REQUIRES_TWO, <<>>)>>
    ELSE <<>>

\* check_dkim after the loop over the selectors
dkim_finish(res, found, dom) ==
    LET kept == [res EXCEPT !.records.dkim = Some(found)]
    IN  recommend_dkim_records(add_issues(kept, dkim_count_issues(found)), dom)

(***************************************************************************)
(* EmailAuthChecker: check_dmarc                                           *)
(***************************************************************************)
DigitSeq == <<"0","1","2","3","4","5","6","7","8","9">>

DigitVal(c) == (CHOOSE i \in 1..10 : DigitSeq[i] = c) - 1

\* int(text) for a text of digits
RECURSIVE ParseInt(_)
ParseInt(ds) ==
    IF ds = <<>> THEN 0
    ELSE ParseInt(SubSeq(ds, 1, Len(ds) - 1)) * 10 + DigitVal(ds[Len(ds)])

\* str(n) for n >= 0
RECURSIVE IntText(_)
IntText(n) == IF n < 10 THEN <<DigitSeq[n + 1]>> ELSE IntText(n \div 10) \o <<DigitSeq[(n % 10) + 1]>>

PctDefault == 100

PctFull == 100

\* re.search(r'rua=mailto:([^\s;]+)', s) matches
re_rua_matches(s) ==
    \E i \in 1..Len(s) :
        /\ MatchAt(s, i, <<"r","u","a","=","m","a","i","l","t","o",":">>)
        /\ RunLen(s, i + 11, AllChars \ (SpaceChars \cup {";"})) >= 1

\* re.search(r'pct=(\d+)', s): group 1, or None
re_pct(s) ==
    LET starts == {i \in 1..Len(s) : MatchAt(s, i, <<"p","c","t","=">>) /\ RunLen(s, i + 4, Digits) >= 1}
    IN  IF starts = {} THEN None
        ELSE Some(SubSeq(s, Min(starts) + 4, Min(starts) + 3 + RunLen(s, Min(starts) + 4, Digits)))

\* p_value of check_dmarc
dmarc_p_value(dmarc_record) == re_mech_result(dmarc_record, <<"p">>)

\* pct_value of check_dmarc
dmarc_pct_value(dmarc_record) ==
    IF re_pct(dmarc_record) = None THEN PctDefault ELSE ParseInt(re_pct(dmarc_record)[1])

\* the policy check
dmarc_policy_issues(dmarc_record) ==
    LET p_value == dmarc_p_value(dmarc_record)
    IN  IF ~Truthy(p_value) THEN <<Issue(DMARC_NO_POLICY, <<>>)>>
        ELSE IF p_value[1] = <<"n","o","n","e">> THEN <<Issue(DMARC_POLICY_NONE, <<>>)>>
        ELSE <<>>

\* the rua check
dmarc_rua_issues(dmarc_record) ==
    IF ~re_rua_matches(dmarc_record) THEN <<Issue(DMARC_NO_RUA, <<>>)>> ELSE <<>>

\* the pct check
dmarc_pct_issues(dmarc_record) ==
    LET pct_value == dmarc_pct_value(dmarc_record)
    IN  IF pct_value < PctFull THEN <<Issue(DMARC_PARTIAL, IntText(pct_value))>> ELSE <<>>

\* the three checks on the found record, in the order of the code
dmarc_record_issues(dmarc_record) ==
    dmarc_policy_issues(dmarc_record)
        \o dmarc_rua_issues(dmarc_record)
        \o dmarc_pct_issues(dmarc_record)

\* the except branch of check_dmarc
dmarc_lookup_failed(res, error, dom) ==
    recommend_dmarc_record(add_issue(res, Issue(DMARC_ERROR, error)), dom)

check_dmarc(res, outcome, dom) ==
    IF ~outcome.ok THEN dmarc_lookup_failed(res, outcome.error, dom)
    ELSE LET dmarc_records == txt_candidates(outcome.answers, <<"v","=","D","M","A","R","C","1">>)
         IN  IF dmarc_records = <<>>
             THEN recommend_dmarc_record(
                      [add_issue(res, Issue(DMARC_NOT_FOUND, <<>>))
                          EXCEPT !.records.dmarc = None], dom)
             ELSE LET dmarc_record == dmarc_records[1]
                      kept == [res EXCEPT !.records.dmarc = Some(dmarc_record)]
                  IN  recommend_dmarc_record(
                          add_issues(kept, dmarc_record_issues(dmarc_record)), dom)

(***************************************************************************)
(* EmailAuthChecker: _generate_commands                                    *)
(***************************************************************************)
\* str.replace(lit, "")
RECURSIVE RemoveAll(_, _)
RemoveAll(s, lit) ==
    IF s = <<>> THEN <<>>
    ELSE IF MatchAt(s, 1, lit) THEN RemoveAll(SubSeq(s, Len(lit) + 1, Len(s)), lit)
    ELSE <<Head(s)>> \o RemoveAll(Tail(s), lit)

\* the recommended DKIM records, when the list is there and not empty
dkim_recs(res) ==
    IF res.recommendations.dkim # None /\ res.recommendations.dkim[1] # <<>>
    THEN res.recommendations.dkim[1] ELSE <<>>

bind9_commands(res, dom) ==
    LET rec == res.recommendations
        dkim_cmd(r) == Command("{host}. IN CNAME {value}.", <<r.host, r.value>>)
    IN  (IF Truthy(rec.spf)
         THEN <<Command("{domain}. IN TXT {spf}", <<dom, rec.spf[1]>>)>> ELSE <<>>)
        \o MapSeq(dkim_cmd, dkim_recs(res))
        \o (IF Truthy(rec.dmarc)
            THEN <<Command("_dmarc.{domain}. IN TXT {dmarc}", <<dom, rec.dmarc[1]>>)>>
            ELSE <<>>)

powershell_commands(res, dom) ==
    LET rec == res.recommendations
        dkim_cmd(r) ==
            Command("New-DkimSigningConfig -DomainName {domain} -Selector{selector} {host}",
                    <<dom, RemoveAll(r.selector, <<"s","e","l","e","c","t","o","r">>), r.host>>)
    IN  (IF Truthy(rec.spf)
         THEN <<Command("Add-DnsServerResourceRecord -ZoneName {domain} -Name @ -Txt {spf}",
                        <<dom, rec.spf[1]>>)>>
         ELSE <<>>)
        \o MapSeq(dkim_cmd, dkim_recs(res))
        \o (IF Truthy(rec.dmarc)
            THEN <<Command("Add-DnsServerResourceRecord -ZoneName {domain} -Name _dmarc -Txt {dmarc}",
                           <<dom, rec.dmarc[1]>>)>>
            ELSE <<>>)

azure_cli_commands(res, dom) ==
    LET rec == res.recommendations
        dkim_cmd(r) ==
            Command("az network dns record-set cname set-record -z {domain} -n {selector}._domainkey -c {value}",
                    <<dom, r.selector, r.value>>)
    IN  (IF Truthy(rec.spf)
         THEN <<Command("az network dns record-set txt add-record -z {domain} -n @ -v {spf}",
                        <<dom, rec.spf[1]>>)>>
         ELSE <<>>)
        \o MapSeq(dkim_cmd, dkim_recs(res))
        \o (IF Truthy(rec.dmarc)
            THEN <<Command("az network dns record-set txt add-record -z {domain} -n _dmarc -v {dmarc}",
                           <<dom, rec.dmarc[1]>>)>>
            ELSE <<>>)

generate_commands(res, dom) ==
    [res EXCEPT !.commands.bind9 = @ \o bind9_commands(res, dom),
                !.commands.powershell = @ \o powershell_commands(res, dom),
                !.commands.azure_cli = @ \o azure_cli_commands(res, dom)]

(***************************************************************************)
(* Header texts analysed.  MaxOcc bounds the Authentication-Results        *)
(* occurrences of a text, MaxCont the continuation lines of a folded field.*)
(***************************************************************************)
MaxOcc == 2

MaxCont == 2

SeqsUpTo(S, n) == UNION {[1..k -> S] : k \in 0..n}

ReceivedSpfParts ==
    { <<>>,
      << <<"R","e","c","e","i","v","e","d","-","S","P","F",":"," ","P","a","s","s"," ","(","s","e","n","d","e","r"," ","o","k",")">> >>,
      << <<"R","e","c","e","i","v","e","d","-","S","P","F",":"," ","f","a","i","l">> >>,
      << <<"R","e","c","e","i","v","e","d","-","S","P","F",":">> >>,
      << <<"R","e","c","e","i","v","e","d","-","S","P","F",":">>, <<" ","p","a","s","s"," ","(","o","k",")">> >>,
      << <<"R","e","c","e","i","v","e","d","-","S","P","F",":"," ","(","n","o","n","e",")">> >> }

AuthResultLines ==
    { <<"A","u","t","h","e","n","t","i","c","a","t","i","o","n","-","R","e","s","u","l","t","s",":"," ","s","p","f","=","p","a","s","s"," ","d","k","i","m","=","f","a","i","l"," ","d","m","a","r","c","=","p","a","s","s">>,
      <<"A","u","t","h","e","n","t","i","c","a","t","i","o","n","-","R","e","s","u","l","t","s",":"," ","s","p","f","=","f","a","i","l"," ","(","b","a","d",")"," ","d","k","i","m","=","p","a","s","s">>,
      <<"A","u","t","h","e","n","t","i","c","a","t","i","o","n","-","R","e","s","u","l","t","s",":"," ","d","k","i","m","=","F","a","i","l"," ","(","s","i","g",")"," ","h","e","a","d","e","r",".","d","=","a",".","c","o","m">>,
      <<"a","u","t","h","e","n","t","i","c","a","t","i","o","n","-","r","e","s","u","l","t","s",":"," ","m","x",";"," ","d","m","a","r","c","=","f","a","i","l">>,
      <<"A","R","C","-","A","u","t","h","e","n","t","i","c","a","t","i","o","n","-","R","e","s","u","l","t","s",":"," ","i","=","1",";"," ","a","r","c","=","f","a","i","l"," ","s","p","f","=","s","o","f","t","f","a","i","l">>,
      <<"A","u","t","h","e","n","t","i","c","a","t","i","o","n","-","R","e","s","u","l","t","s",":"," ","m","x",";"," ","n","o","n","e">> }

FromParts ==
    { <<>>,
      << <<"F","r","o","m",":"," ","u","s","e","r","@","a",".","c","o","m">> >>,
      << <<"F","r","o","m",":"," ","U"," ","<","u","@","A",".","c","o","m",">">> >>,
      << <<"F","r","o","m",":">>, <<TAB>> \o <<"u","s","e","r","@","a",".","c","o","m">> >>,
      << <<"F","r","o","m",":"," ","n","o","b","o","d","y">> >> }

ReturnPathParts ==
    { <<>>,
      << <<"R","e","t","u","r","n","-","P","a","t","h",":"," ","<","u","s","e","r","@","b",".","c","o","m",">">> >>,
      << <<"R","e","t","u","r","n","-","P","a","t","h",":"," ","<","u","s","e","r","@","a",".","c","o","m",">">> >>,
      << <<"R","e","t","u","r","n","-","P","a","t","h",":"," ","<",">">> >> }

FoldHeads == { <<"S","e","n","d","e","r",":">>, <<"S","e","n","d","e","r",":"," ","a","@","b",".","c">>, <<"S","e","n","d","e","r",":"," "," ">> }

ContinuationLines == { <<" ","x","@","y",".","z">>, <<TAB>> \o <<"(","w",")"," ">>, <<" "," ">> }

\* precedence and overwriting among Received-SPF and Authentication-Results
AuthTexts ==
    { JoinWith(f \o r \o a, <<NL>>) :
        f \in { <<>>, << <<"F","r","o","m",":"," ","u","s","e","r","@","a",".","c","o","m">> >> },
        r \in ReceivedSpfParts,
        a \in SeqsUpTo(AuthResultLines, MaxOcc) }

\* From and Return-Path values
AlignTexts ==
    { JoinWith(f \o r \o << <<"A","u","t","h","e","n","t","i","c","a","t","i","o","n","-","R","e","s","u","l","t","s",":"," ","s","p","f","=","p","a","s","s"," ","d","k","i","m","=","f","a","i","l"," ","d","m","a","r","c","=","p","a","s","s">> >>,
               <<NL>>) :
        f \in FromParts, r \in ReturnPathParts }

\* folded fields
FoldTexts ==
    { JoinWith(<<h>> \o c \o t, <<NL>>) :
        h \in FoldHeads,
        c \in SeqsUpTo(ContinuationLines, MaxCont),
        t \in { <<>>, << <<"S","u","b","j","e","c","t",":"," ","x">> >> } }

\* explanations away from their token, several tokens of one mechanism
ExplainTexts ==
    { JoinWith(<<a>>, <<NL>>) :
        a \in { <<"A","u","t","h","e","n","t","i","c","a","t","i","o","n","-","R","e","s","u","l","t","s",":"," ","m","x",";"," ","d","k","i","m","=","p","a","s","s"," ","h","e","a","d","e","r",".","d","=","a",".","c","o","m"," ","(","g","o","o","d",")">>,
                <<"A","u","t","h","e","n","t","i","c","a","t","i","o","n","-","R","e","s","u","l","t","s",":"," ","s","p","f","=","p","a","s","s"," ","s","p","f","=","f","a","i","l"," ","(","b","a","d",")">>,
                <<"A","u","t","h","e","n","t","i","c","a","t","i","o","n","-","R","e","s","u","l","t","s",":"," ","d","k","i","m","=","p","a","s","s"," ","d","m","a","r","c","=","f","a","i","l"," ","(","p","o","l","i","c","y",")">> } }

\* issue texts that carry the name of another mechanism, and a message that passes
MentionTexts ==
    { JoinWith(<< <<"F","r","o","m",":"," ","u","@","S","P","F",".","a",".","c","o","m">>, <<"R","e","t","u","r","n","-","P","a","t","h",":"," ","<","u","s","e","r","@","a",".","c","o","m",">">>,
                  <<"A","u","t","h","e","n","t","i","c","a","t","i","o","n","-","R","e","s","u","l","t","s",":"," ","s","p","f","=","p","a","s","s"," ","d","k","i","m","=","p","a","s","s"," ","d","m","a","r","c","=","p","a","s","s">> >>, <<NL>>),
      JoinWith(<< <<"F","r","o","m",":"," ","u","s","e","r","@","a",".","c","o","m">>,
                  <<"A","u","t","h","e","n","t","i","c","a","t","i","o","n","-","R","e","s","u","l","t","s",":"," ","s","p","f","=","p","a","s","s"," ","d","k","i","m","=","f","a","i","l"," ","(","n","o"," ","D","M","A","R","C"," ","k","e","y",")"," ","d","m","a","r","c","=","p","a","s","s">> >>,
               <<NL>>),
      JoinWith(<< <<"F","r","o","m",":"," ","u","s","e","r","@","a",".","c","o","m">>,
                  <<"A","u","t","h","e","n","t","i","c","a","t","i","o","n","-","R","e","s","u","l","t","s",":"," ","s","p","f","=","p","a","s","s"," ","d","k","i","m","=","p","a","s","s"," ","d","m","a","r","c","=","p","a","s","s">> >>, <<NL>>) }

HeaderTexts == AuthTexts \cup AlignTexts \cup FoldTexts \cup ExplainTexts \cup MentionTexts

(***************************************************************************)
(* analyze_header as a state machine                                       *)
(***************************************************************************)
hvars == <<header_text, headers, authentication, issues, recommendations, occ, pc>>

dvars == <<domain, results, found_selectors, sel, lookups, answer, cpc>>

mvars == <<argv, stdout, stderr, exit_code, files, mpc>>

vars == <<header_text, headers, authentication, issues, recommendations, occ, pc,
          domain, results, found_selectors, sel, lookups, answer, cpc,
          argv, stdout, stderr, exit_code, files, mpc>>

\* no main() around a run of analyze_header or check_all called directly
NoMain ==
    /\ argv = None
    /\ stdout = <<>>
    /\ stderr = <<>>
    /\ exit_code = None
    /\ files = {}
    /\ mpc = "off"

\* no EmailAuthChecker in a run of the header analyzer
NoChecker ==
    /\ domain = <<>>
    /\ results = EmptyResults
    /\ found_selectors = <<>>
    /\ sel = 0
    /\ lookups = <<>>
    /\ answer = None
    /\ cpc = "off"

\* EmailHeaderAnalyzer.__init__ and the argument of analyze_header
Init ==
    /\ header_text \in HeaderTexts
    /\ headers = EmptyHeaders
    /\ authentication = EmptyAuthentication
    /\ issues = <<>>
    /\ recommendations = <<>>
    /\ occ = 0
    /\ pc = "start"
    /\ NoChecker
    /\ NoMain

\* lines = header_text.splitlines(); self._extract_header_fields(lines)
ExtractHeaderFields ==
    /\ pc = "start"
    /\ headers' = extract_header_fields(headers, splitlines(header_text))
    /\ pc' = "received_spf"
    /\ UNCHANGED <<header_text, authentication, issues, recommendations, occ, dvars, mvars>>

\* _analyze_authentication: the Received-SPF step
AnalyzeReceivedSpf ==
    /\ pc = "received_spf"
    /\ authentication' = analyze_received_spf(authentication, headers)
    /\ occ' = 1
    /\ pc' = "auth_results"
    /\ UNCHANGED <<header_text, headers, issues, recommendations, dvars, mvars>>

\* _analyze_authentication: one iteration of the loop over the occurrences
ExtractFromAuthenticationResults ==
    /\ pc = "auth_results"
    /\ occ <= Len(headers.authentication_results)
    /\ authentication' =
           extract_from_authentication_results(authentication,
                                               headers.authentication_results[occ])
    /\ occ' = occ + 1
    /\ UNCHANGED <<header_text, headers, issues, recommendations, pc, dvars, mvars>>

\* _analyze_authentication: self._identify_issues() after the loop
IdentifyIssues ==
    /\ pc = "auth_results"
    /\ occ > Len(headers.authentication_results)
    /\ issues' = identify_issues(issues, authentication, headers)
    /\ pc' = "recommend"
    /\ UNCHANGED <<header_text, headers, authentication, recommendations, occ, dvars, mvars>>

\* self._generate_recommendations(); return self.results
GenerateRecommendations ==
    /\ pc = "recommend"
    /\ recommendations' = generate_recommendations(recommendations, issues, headers)
    /\ pc' = "done"
    /\ UNCHANGED <<header_text, headers, authentication, issues, occ, dvars, mvars>>

Next ==
    \/ ExtractHeaderFields
    \/ AnalyzeReceivedSpf
    \/ ExtractFromAuthenticationResults
    \/ IdentifyIssues
    \/ GenerateRecommendations

Spec == Init /\ [][Next]_vars


(***************************************************************************)
(* The resolver.  MaxTxt bounds the strings of one TXT answer.             *)
(***************************************************************************)
MaxTxt == 2

Domains == { <<"a",".","c","o","m">>, <<"x",".","b",".","o","r","g">> }

\* str(e) of the dns.exception.DNSException raised: not found, transient failure
DnsErrors == { <<"N","X","D","O","M","A","I","N">>, <<"T","i","m","e","o","u","t">> }

Quoted(s) == <<DQ>> \o s \o <<DQ>>

NonEmptySeqs(S, n) == UNION {[1..k -> S] : k \in 1..n}

SpfTxtStrings ==
    { Quoted(<<"v","=","s","p","f","1"," ","i","n","c","l","u","d","e",":","s","p","f",".","p","r","o","t","e","c","t","i","o","n",".","o","u","t","l","o","o","k",".","c","o","m"," ","-","a","l","l">>),
      Quoted(<<"v","=","s","p","f","1"," ","m","x"," ","~","a","l","l">>),
      Quoted(<<"v","=","s","p","f","1"," ","i","n","c","l","u","d","e",":","r","e","l","a","y","-","a","l","l",".","n","e","t">>),
      Quoted(<<"v","=","s","p","f","1"," ","-","a","l","l"," ","i","n","c","l","u","d","e",":","s","p","f",".","p","r","o","t","e","c","t","i","o","n",".","o","u","t","l","o","o","k",".","c","o","m">>),
      Quoted(<<"v","=","s","p","f","1"," ","m","x">>),
      Quoted(<<"M","S","=","m","s","1">>) }

DmarcTxtStrings ==
    { Quoted(<<"v","=","D","M","A","R","C","1">> \o p \o r \o c) :
        p \in { <<";"," ","p","=","n","o","n","e">>, <<";"," ","p","=","r","e","j","e","c","t">> },
        r \in { <<>>, <<";"," ","r","u","a","=","m","a","i","l","t","o",":","d","@","a",".","c","o","m">> },
        c \in { <<>>, <<";"," ","p","c","t","=","5","0">> } }
    \cup { Quoted(<<"v","=","D","M","A","R","C","1",";"," ","s","p","=","n","o","n","e",";"," ","p","=","r","e","j","e","c","t",";"," ","r","u","a","=","m","a","i","l","t","o",":","d","@","a",".","c","o","m">>),
           Quoted(<<"v","=","D","M","A","R","C","1",";"," ","r","u","a","=","m","a","i","l","t","o",":","d","@","a",".","c","o","m",";"," ","p","c","t","=","1","0","0">>),
           Quoted(<<"M","S","=","m","s","1">>) }

Failures == {Failure(e) : e \in DnsErrors}

\* the outcomes a handler run on its own is given
SpfOutcomes == {Answer(a) : a \in NonEmptySeqs(SpfTxtStrings, MaxTxt)} \cup Failures

DmarcOutcomes == {Answer(a) : a \in NonEmptySeqs(DmarcTxtStrings, MaxTxt)} \cup Failures

\* the TXT strings of the zones check_all is run against
ZoneSpfStrings ==
    { Quoted(<<"v","=","s","p","f","1"," ","i","n","c","l","u","d","e",":","s","p","f",".","p","r","o","t","e","c","t","i","o","n",".","o","u","t","l","o","o","k",".","c","o","m"," ","-","a","l","l">>),
      Quoted(<<"v","=","s","p","f","1"," ","m","x">>),
      Quoted(<<"M","S","=","m","s","1">>) }

ZoneDmarcStrings ==
    { Quoted(<<"v","=","D","M","A","R","C","1",";"," ","p","=","r","e","j","e","c","t",";"," ","r","u","a","=","m","a","i","l","t","o",":","d","@","a",".","c","o","m">>),
      Quoted(<<"v","=","D","M","A","R","C","1",";"," ","p","=","n","o","n","e",";"," ","p","c","t","=","5","0">>),
      Quoted(<<"M","S","=","m","s","1">>) }

ZoneSpfOutcomes == {Answer(a) : a \in NonEmptySeqs(ZoneSpfStrings, MaxTxt)} \cup Failures

ZoneDmarcOutcomes == {Answer(a) : a \in NonEmptySeqs(ZoneDmarcStrings, MaxTxt)} \cup Failures

\* a CNAME into a tenant's zone, and one elsewhere
CnameOutcomes(selector, dom) ==
    { Answer(<< selector \o <<"-">> \o ReplaceChar(dom, ".", "-")
                    \o <<".","_","d","o","m","a","i","n","k","e","y",".","c","o","n","t","o","s","o",".","o","n","m","i","c","r","o","s","o","f","t",".","c","o","m",".">> >>),
      Answer(<< selector \o <<"-">> \o ReplaceChar(dom, ".", "-")
                    \o <<".","_","d","o","m","a","i","n","k","e","y",".","f","a","b","r","i","k","a","m",".","o","n","m","i","c","r","o","s","o","f","t",".","c","o","m">> >>),
      Answer(<< <<"d","k","i","m",".","e","x","a","m","p","l","e",".","n","e","t",".">> >>) } \cup Failures

DkimTxtOutcomes == { Answer(<< Quoted(<<"v","=","D","K","I","M","1",";"," ","p","=","a","b","c">>) >>) } \cup Failures

Lookup(name, type, outcome) == [name |-> name, type |-> type, ok |-> outcome.ok]

(***************************************************************************)
(* check_all as a state machine                                            *)
(***************************************************************************)
\* no EmailHeaderAnalyzer in a run of the checker
NoAnalyzer ==
    /\ header_text = <<>>
    /\ headers = EmptyHeaders
    /\ authentication = EmptyAuthentication
    /\ issues = <<>>
    /\ recommendations = <<>>
    /\ occ = 0
    /\ pc = "off"

\* EmailAuthChecker.__init__
NewChecker ==
    /\ domain \in Domains
    /\ results = EmptyResults
    /\ found_selectors = <<>>
    /\ sel = 0
    /\ lookups = <<>>
    /\ answer = None

InitDns == NoAnalyzer /\ NewChecker /\ cpc = "spf" /\ NoMain

\* self.check_spf()
CheckSpf ==
    /\ cpc = "spf"
    /\ \E outcome \in ZoneSpfOutcomes :
          /\ results' = check_spf(results, outcome)
          /\ lookups' = Append(lookups, Lookup(domain, "TXT", outcome))
    /\ sel' = 1
    /\ cpc' = "dkim_cname"
    /\ UNCHANGED <<domain, found_selectors, answer, hvars, mvars>>

\* where check_dkim goes after it is done with selector number n
after_selector(n) == IF n < Len(Selectors) THEN "dkim_cname" ELSE "dkim_finish"

\* check_dkim: dns.resolver.resolve(dkim_name, 'CNAME') for the current selector
DkimResolveCname ==
    /\ cpc = "dkim_cname"
    /\ \E outcome \in CnameOutcomes(Selectors[sel], domain) :
          /\ lookups' = Append(lookups,
                               Lookup(dkim_name(Selectors[sel], domain), "CNAME", outcome))
          /\ IF outcome.ok
             THEN /\ found_selectors' = found_cname(found_selectors, Selectors[sel], outcome)
                  /\ sel' = sel + 1
                  /\ cpc' = after_selector(sel)
             ELSE /\ cpc' = "dkim_txt"
                  /\ UNCHANGED <<found_selectors, sel>>
    /\ UNCHANGED <<domain, results, answer, hvars, mvars>>

\* check_dkim: the fallback dns.resolver.resolve(dkim_name, 'TXT')
DkimResolveTxt ==
    /\ cpc = "dkim_txt"
    /\ \E outcome \in DkimTxtOutcomes :
          /\ lookups' = Append(lookups,
                               Lookup(dkim_name(Selectors[sel], domain), "TXT", outcome))
          /\ IF outcome.ok
             THEN /\ found_selectors' = found_txt(found_selectors, Selectors[sel], outcome)
                  /\ UNCHANGED results
             ELSE /\ results' = dkim_selector_missing(results, Selectors[sel])
                  /\ UNCHANGED found_selectors
    /\ sel' = sel + 1
    /\ cpc' = after_selector(sel)
    /\ UNCHANGED <<domain, answer, hvars, mvars>>

\* check_dkim after the loop
DkimFinish ==
    /\ cpc = "dkim_finish"
    /\ results' = dkim_finish(results, found_selectors, domain)
    /\ cpc' = "dmarc"
    /\ UNCHANGED <<domain, found_selectors, sel, lookups, answer, hvars, mvars>>

\* self.check_dmarc()
CheckDmarc ==
    /\ cpc = "dmarc"
    /\ \E outcome \in ZoneDmarcOutcomes :
          /\ results' = check_dmarc(results, outcome, domain)
          /\ lookups' = Append(lookups, Lookup(<<"_","d","m","a","r","c",".">> \o domain, "TXT", outcome))
    /\ cpc' = "commands"
    /\ UNCHANGED <<domain, found_selectors, sel, answer, hvars, mvars>>

\* self._generate_commands(); return self.results
GenerateCommands ==
    /\ cpc = "commands"
    /\ results' = generate_commands(results, domain)
    /\ cpc' = "done"
    /\ UNCHANGED <<domain, found_selectors, sel, lookups, answer, hvars, mvars>>

NextDns ==
    \/ CheckSpf
    \/ DkimResolveCname
    \/ DkimResolveTxt
    \/ DkimFinish
    \/ CheckDmarc
    \/ GenerateCommands

SpecDns == InitDns /\ [][NextDns]_vars

\* check_all runs its statements one after the other and every resolver call returns
FairSpecDns == SpecDns /\ WF_vars(NextDns)

(***************************************************************************)
(* _generate_commands called once more on a checker whose check_all has    *)
(* returned                                                                *)
(***************************************************************************)
GenerateCommandsAgain ==
    /\ cpc = "done"
    /\ results' = generate_commands(results, domain)
    /\ cpc' = "generated again"
    /\ UNCHANGED <<domain, found_selectors, sel, lookups, answer, hvars, mvars>>

NextRepeat == NextDns \/ GenerateCommandsAgain

SpecRepeat == InitDns /\ [][NextRepeat]_vars

(***************************************************************************)
(* check_spf and check_dmarc, each called on a new checker                 *)
(***************************************************************************)
InitHandlers == NoAnalyzer /\ NewChecker /\ cpc = "new" /\ NoMain

RunCheckSpf ==
    /\ cpc = "new"
    /\ \E outcome \in SpfOutcomes :
          /\ results' = check_spf(results, outcome)
          /\ answer' = Some(outcome)
          /\ lookups' = Append(lookups, Lookup(domain, "TXT", outcome))
    /\ cpc' = "check_spf returned"
    /\ UNCHANGED <<domain, found_selectors, sel, hvars, mvars>>

RunCheckDmarc ==
    /\ cpc = "new"
    /\ \E outcome \in DmarcOutcomes :
          /\ results' = check_dmarc(results, outcome, domain)
          /\ answer' = Some(outcome)
          /\ lookups' = Append(lookups, Lookup(<<"_","d","m","a","r","c",".">> \o domain, "TXT", outcome))
    /\ cpc' = "check_dmarc returned"
    /\ UNCHANGED <<domain, found_selectors, sel, hvars, mvars>>

NextHandlers == RunCheckSpf \/ RunCheckDmarc

SpecHandlers == InitHandlers /\ [][NextHandlers]_vars

(***************************************************************************)
(* The two main() functions.  A printed line is the format string of its   *)
(* print call with the values it interpolates.                             *)
(***************************************************************************)
UpperChar(c) ==
    IF \E i \in 1..26 : LowerLetters[i] = c
    THEN UpperLetters[CHOOSE i \in 1..26 : LowerLetters[i] = c]
    ELSE c

\* str.upper()
Upper(s) == [i \in 1..Len(s) |-> UpperChar(s[i])]

Line(template, values) == [template |-> template, values |-> values]

EMPTY_HEADER == "Erro: O conteudo do cabecalho esta vazio."
UNHANDLED == "Erro: {str(e)}"
EXPORTED_VERBOSE == "Resultados exportados para {output_file}"
EXPORTED == "\nResultados exportados para {args.output}"
CHECKING_VERBOSE == "Verificando dominio: {self.domain}"

\* analisador_cabecalho.main: the lines of one mechanism in the summary
mechanism_lines(label, verdict, verbose) ==
    IF verdict = None THEN <<Line("{M}: Nao encontrado", <<label>>)>>
    ELSE <<Line("{M}: {result.upper()}", <<label, Upper(verdict[1].result)>>)>>
         \o (IF verbose THEN <<Line("  Detalhes: {explanation}", <<verdict[1].explanation>>)>>
             ELSE <<>>)

\* analisador_cabecalho.main: "=== Resumo da Autenticacao ===" and what follows it
summary_lines(auth, verbose) ==
    <<Line("\n=== Resumo da Autenticacao ===", <<>>)>>
    \o mechanism_lines("SPF", auth.spf, verbose)
    \o mechanism_lines("DKIM", auth.dkim, verbose)
    \o (IF verbose /\ auth.dkim # None /\ auth.dkim[1].selector # <<>>
        THEN <<Line("  Seletor: {selector}", <<auth.dkim[1].selector>>)>> ELSE <<>>)
    \o mechanism_lines("DMARC", auth.dmarc, verbose)
    \o (IF auth.arc # None THEN mechanism_lines("ARC", auth.arc, verbose) ELSE <<>>)

\* both main functions: one "- {item}" line per item
item_lines(items) == [i \in 1..Len(items) |-> Line("- {item}", <<items[i]>>)]

\* analisador_cabecalho.main: the issues, then the recommendations
header_issue_lines(iss) ==
    IF iss # <<>> THEN <<Line("\n=== Problemas Encontrados ===", <<>>)>> \o item_lines(iss)
    ELSE <<Line("\nNenhum problema encontrado! A autenticacao esta correta.", <<>>)>>

header_recommendation_lines(recs) ==
    IF recs # <<>> THEN <<Line("\n=== Recomendacoes ===", <<>>)>> \o item_lines(recs)
    ELSE <<>>

\* email_auth_fix.main: the issues
checker_issue_lines(res) ==
    IF res.issues # <<>>
    THEN <<Line("\nProblemas encontrados ({len(issues)}):", <<Len(res.issues)>>)>>
         \o item_lines(res.issues)
    ELSE <<Line("\nNenhum problema encontrado!", <<>>)>>

\* email_auth_fix.main: "Registros atuais:" and what follows it
checker_record_lines(res) ==
    LET dkim_line(d) == Line("  - {selector}: {record}", <<d.selector, d.record>>)
        txt_line(label, rec) ==
            IF Truthy(rec) THEN <<Line("{M}: {record}", <<label, rec[1]>>)>>
            ELSE <<Line("{M}: Nao encontrado", <<label>>)>>
    IN  <<Line("\nRegistros atuais:", <<>>)>>
        \o txt_line("SPF", res.records.spf)
        \o (IF res.records.dkim # None /\ res.records.dkim[1] # <<>>
            THEN <<Line("DKIM:", <<>>)>> \o MapSeq(dkim_line, res.records.dkim[1])
            ELSE <<Line("{M}: Nao encontrado", <<"DKIM">>)>>)
        \o txt_line("DMARC", res.records.dmarc)

\* email_auth_fix.main: "Recomendacoes:" and what follows it
checker_recommendation_lines(res) ==
    LET dkim_line(d) ==
            Line("  - {selector}: {host} CNAME {value}", <<d.selector, d.host, d.value>>)
        rec == res.recommendations
    IN  <<Line("\nRecomendacoes:", <<>>)>>
        \o (IF Truthy(rec.spf) THEN <<Line("{M}: {record}", <<"SPF", rec.spf[1]>>)>> ELSE <<>>)
        \o (IF dkim_recs(res) # <<>>
            THEN <<Line("DKIM:", <<>>)>> \o MapSeq(dkim_line, dkim_recs(res)) ELSE <<>>)
        \o (IF Truthy(rec.dmarc) THEN <<Line("{M}: {record}", <<"DMARC", rec.dmarc[1]>>)>>
            ELSE <<>>)

\* export_json, then main's own line about it
export_lines(verbose, path) ==
    (IF verbose THEN <<Line(EXPORTED_VERBOSE, <<path>>)>> ELSE <<>>)
    \o <<Line(EXPORTED, <<path>>)>>

(***************************************************************************)
(* Command lines                                                           *)
(***************************************************************************)
OutputPaths == { None, Some("out.json") }

MainTexts ==
    { <<>>,
      <<" "," ">>,
      JoinWith(<< <<"F","r","o","m",":"," ","u","s","e","r","@","a",".","c","o","m">>,
                  <<"A","u","t","h","e","n","t","i","c","a","t","i","o","n","-","R","e","s","u","l","t","s",":"," ","m","x",";"," ","s","p","f","=","p","a","s","s"," ","d","k","i","m","=","p","a","s","s"," ","d","m","a","r","c","=","p","a","s","s">> >>, <<NL>>),
      JoinWith(<< <<"F","r","o","m",":"," ","u","s","e","r","@","a",".","c","o","m">>,
                  <<"A","u","t","h","e","n","t","i","c","a","t","i","o","n","-","R","e","s","u","l","t","s",":"," ","s","p","f","=","p","a","s","s"," ","d","k","i","m","=","f","a","i","l"," ","d","m","a","r","c","=","p","a","s","s">> >>, <<NL>>),
      <<"R","e","c","e","i","v","e","d","-","S","P","F",":"," ","f","a","i","l">> }

\* analisador_cabecalho.py (-f FILE | -t TEXT) [-v] [-o OUTPUT]; text is what -t gives
\* or what FILE holds
HeaderArgs ==
    [program : {"analisador_cabecalho"}, source : {"file", "text"}, text : MainTexts,
     verbose : BOOLEAN, output : OutputPaths]

\* email_auth_fix.py domain [-v] [-o OUTPUT]
CheckerArgs ==
    [program : {"email_auth_fix"}, domain : Domains, verbose : BOOLEAN,
     output : OutputPaths]

(***************************************************************************)
(* main() as a state machine: the try block one step at a time, and the    *)
(* except Exception handler.  The steps that can raise are the ones that   *)
(* reach outside the process: opening the input file, a resolver call      *)
(* raising something other than DNSException, writing to standard output,  *)
(* opening the output file.                                                *)
(***************************************************************************)
InitMain ==
    /\ NoAnalyzer
    /\ NoChecker
    /\ argv \in {Some(a) : a \in HeaderArgs \cup CheckerArgs}
    /\ stdout = <<>>
    /\ stderr = <<>>
    /\ exit_code = None
    /\ files = {}
    /\ mpc = "try"

\* analisador_cabecalho.main: read the header text, refuse an empty one, construct
\* the analyzer
ReadHeaderText ==
    /\ mpc = "try"
    /\ argv[1].program = "analisador_cabecalho"
    /\ IF Strip(argv[1].text) = <<>>
       THEN /\ stderr' = Append(stderr, Line(EMPTY_HEADER, <<>>))
            /\ exit_code' = Some(1)
            /\ mpc' = "returned"
            /\ UNCHANGED <<header_text, pc>>
       ELSE /\ header_text' = argv[1].text
            /\ pc' = "start"
            /\ mpc' = "analyze"
            /\ UNCHANGED <<stderr, exit_code>>
    /\ UNCHANGED <<headers, authentication, issues, recommendations, occ, dvars,
                   argv, stdout, files>>

\* analisador_cabecalho.main: results = analyzer.analyze_header(header_text)
AnalyzeHeader == mpc = "analyze" /\ Next

\* email_auth_fix.main: construct the checker; check_all up to its first lookup
NewCheckerFromArgs ==
    /\ mpc = "try"
    /\ argv[1].program = "email_auth_fix"
    /\ domain' = argv[1].domain
    /\ cpc' = "spf"
    /\ stdout' = stdout \o (IF argv[1].verbose
                            THEN <<Line(CHECKING_VERBOSE, <<argv[1].domain>>)>> ELSE <<>>)
    /\ mpc' = "analyze"
    /\ UNCHANGED <<results, found_selectors, sel, lookups, answer, hvars,
                   argv, stderr, exit_code, files>>

\* email_auth_fix.main: results = checker.check_all()
CheckAll == mpc = "analyze" /\ NextDns

AnalysisReturned == IF argv[1].program = "analisador_cabecalho" THEN pc = "done" ELSE cpc = "done"

\* the three parts of the report, in the order they are printed
report_part(k) ==
    IF argv[1].program = "analisador_cabecalho"
    THEN CASE k = 1 -> summary_lines(authentication, argv[1].verbose)
           [] k = 2 -> header_issue_lines(issues)
           [] k = 3 -> header_recommendation_lines(recommendations)
    ELSE CASE k = 1 -> checker_issue_lines(results)
           [] k = 2 -> checker_record_lines(results)
           [] k = 3 -> checker_recommendation_lines(results)

PrintPc == <<"print 1", "print 2", "print 3", "export">>

\* the analysis has returned: main goes on to print
StartReport ==
    /\ mpc = "analyze"
    /\ AnalysisReturned
    /\ mpc' = PrintPc[1]
    /\ UNCHANGED <<hvars, dvars, argv, stdout, stderr, exit_code, files>>

\* one part of the report is printed
PrintPart ==
    /\ \E k \in 1..3 :
          /\ mpc = PrintPc[k]
          /\ stdout' = stdout \o report_part(k)
          /\ mpc' = PrintPc[k + 1]
    /\ UNCHANGED <<hvars, dvars, argv, stderr, exit_code, files>>

\* if args.output: export_json(args.output) and the line about it; return 0
ExportAndReturn ==
    /\ mpc = "export"
    /\ IF argv[1].output # None
       THEN /\ files' = files \cup {argv[1].output[1]}
            /\ stdout' = stdout \o export_lines(argv[1].verbose, argv[1].output[1])
       ELSE UNCHANGED <<files, stdout>>
    /\ exit_code' = Some(0)
    /\ mpc' = "returned"
    /\ UNCHANGED <<hvars, dvars, argv, stderr>>

\* the step main is about to take reaches outside the process and can raise
CanRaise ==
    \/ mpc = "try" /\ argv[1].program = "analisador_cabecalho" /\ argv[1].source = "file"
    \/ mpc = "analyze" /\ cpc \in {"spf", "dkim_cname", "dkim_txt", "dmarc"}
    \/ mpc \in {PrintPc[k] : k \in 1..3}
    \/ mpc = "export" /\ argv[1].output # None

\* except Exception as e: print(f"Erro: {str(e)}", file=sys.stderr); return 1
Raise ==
    /\ CanRaise
    /\ stderr' = Append(stderr, Line(UNHANDLED, <<>>))
    /\ exit_code' = Some(1)
    /\ mpc' = "returned"
    /\ UNCHANGED <<hvars, dvars, argv, stdout, files>>

NextMain ==
    \/ ReadHeaderText
    \/ AnalyzeHeader
    \/ NewCheckerFromArgs
    \/ CheckAll
    \/ StartReport
    \/ PrintPart
    \/ ExportAndReturn
    \/ Raise

SpecMain == InitMain /\ [][NextMain]_vars

(***************************************************************************)
(* Reference reading of a header text, used to state the properties: the   *)
(* fields in header order, each with the stripped non-blank pieces of its  *)
(* value (the first line's value, then the continuation lines).            *)
(***************************************************************************)
RECURSIVE RefFieldsFrom(_, _, _)
RefFieldsFrom(lines, i, acc) ==
    IF i > Len(lines) THEN acc
    ELSE LET line == lines[i]
             k == IndexFrom(line, 1, ":")
         IN  IF Strip(line) = <<>> THEN RefFieldsFrom(lines, i + 1, acc)
             ELSE IF line[1] \in SpaceChars
             THEN IF acc = <<>> THEN RefFieldsFrom(lines, i + 1, acc)
                  ELSE RefFieldsFrom(lines, i + 1,
                           [acc EXCEPT ![Len(acc)].parts = Append(@, Strip(line)),
                                       ![Len(acc)].folded = TRUE])
             ELSE IF k = 0
             THEN RefFieldsFrom(lines, i + 1,
                      Append(acc, [name |-> <<>>, parts |-> <<>>, folded |-> FALSE]))
             ELSE LET v == Strip(SubSeq(line, k + 1, Len(line)))
                  IN  RefFieldsFrom(lines, i + 1,
                          Append(acc, [name |-> Lower(SubSeq(line, 1, k - 1)),
                                       parts |-> IF v = <<>> THEN <<>> ELSE <<v>>,
                                       folded |-> FALSE]))

RefFields == RefFieldsFrom(splitlines(header_text), 1, <<>>)

\* the value of a field: its pieces joined by exactly one space
RefValue(f) == JoinWith(f.parts, <<" ">>)

\* the last field of the text with the given name, or None
RefLast(name) ==
    LET F == RefFields
        at == {i \in 1..Len(F) : F[i].name = name}
    IN  IF at = {} THEN None ELSE Some(F[Max(at)])

\* the retained Authentication-Results occurrences, in header order
RefOccurrences ==
    LET F == RefFields
        keep == {i \in 1..Len(F) : F[i].name \in {<<"a","u","t","h","e","n","t","i","c","a","t","i","o","n","-","r","e","s","u","l","t","s">>,
                                                  <<"a","r","c","-","a","u","t","h","e","n","t","i","c","a","t","i","o","n","-","r","e","s","u","l","t","s">>}}
        RECURSIVE pick(_)
        pick(i) == IF i > Len(F) THEN <<>>
                   ELSE IF i \in keep THEN <<RefValue(F[i])>> \o pick(i + 1)
                   ELSE pick(i + 1)
    IN  pick(1)

ResultOf(verdict) == IF verdict = None THEN None ELSE Some(verdict[1].result)

Analyzed == pc \in {"recommend", "done"}

(***************************************************************************)
(* C1. SPF precedence: a Received-SPF field that carries a result decides  *)
(* the SPF verdict whatever spf= tokens the Authentication-Results         *)
(* occurrences hold; without one, the first occurrence holding an spf=     *)
(* token decides and later occurrences change nothing.                     *)
(***************************************************************************)
RefReceivedSpfVerdict ==
    LET f == RefLast(<<"r","e","c","e","i","v","e","d","-","s","p","f">>)
    IN  IF f = None THEN None ELSE extract_spf_from_received_spf(RefValue(f[1]))

RefFirstSpf ==
    LET O == RefOccurrences
        at == {i \in 1..Len(O) : re_mech_result(O[i], <<"s","p","f">>) # None}
    IN  IF at = {} THEN None ELSE verdict_in(O[Min(at)], <<"s","p","f">>)

\* C1: the SPF verdict is the Received-SPF one when the field is present, else that
\* of the first occurrence holding an spf= token
C1_SpfPrecedence ==
    Analyzed =>
        LET received == RefReceivedSpfVerdict
        IN  ResultOf(authentication.spf) =
                IF received # None THEN ResultOf(received) ELSE ResultOf(RefFirstSpf)

(***************************************************************************)
(* C2. Last occurrence wins for DKIM, DMARC and ARC: the final verdict of  *)
(* mechanism M is the result of the last occurrence holding an M= token,   *)
(* and is unset when no occurrence holds one.  An M= token is the method   *)
(* name M as a whole word followed by = and a result.                      *)
(***************************************************************************)
TokenStarts(s, mech) ==
    {i \in mech_starts(s, mech) : i = 1 \/ s[i - 1] \notin WordChars}

TokenResult(s, mech) ==
    LET b == Min(TokenStarts(s, mech)) + Len(mech) + 1
    IN  Lower(SubSeq(s, b, b + RunLen(s, b, WordChars) - 1))

RefLastResult(mech) ==
    LET O == RefOccurrences
        at == {i \in 1..Len(O) : TokenStarts(O[i], mech) # {}}
    IN  IF at = {} THEN None ELSE Some(TokenResult(O[Max(at)], mech))

\* C2: the DKIM, DMARC and ARC verdicts are the results of the last occurrence
\* holding the mechanism's token, unset when there is none
C2_LastOccurrenceWins ==
    Analyzed =>
        /\ ResultOf(authentication.dkim) = RefLastResult(<<"d","k","i","m">>)
        /\ ResultOf(authentication.dmarc) = RefLastResult(<<"d","m","a","r","c">>)
        /\ ResultOf(authentication.arc) = RefLastResult(<<"a","r","c">>)

(***************************************************************************)
(* C3. Unfolding: the value stored for a recognized field whose value      *)
(* spans several physical lines is the stripped text of its lines joined   *)
(* by exactly one space, with no leading or extra space, also when the     *)
(* first physical line has an empty value.                                 *)
(***************************************************************************)
StoredAs(name) ==
    IF name = <<"f","r","o","m">> THEN headers.from
    ELSE IF name = <<"r","e","t","u","r","n","-","p","a","t","h">> THEN headers.return_path
    ELSE IF name = <<"s","e","n","d","e","r">> THEN headers.sender
    ELSE headers.received_spf

\* C3: every recognized field is stored as the stripped parts of its lines joined
\* by single spaces
C3_Unfolding ==
    pc # "start" =>
        \A name \in {<<"f","r","o","m">>, <<"r","e","t","u","r","n","-","p","a","t","h">>, <<"s","e","n","d","e","r">>, <<"r","e","c","e","i","v","e","d","-","s","p","f">>} :
            LET f == RefLast(name)
            IN  (f # None /\ f[1].folded) => StoredAs(name) = Some(RefValue(f[1]))

(***************************************************************************)
(* C4. Verdicts and issues: for SPF, DKIM and DMARC, a set verdict gives   *)
(* exactly one failure issue carrying the result when the result is not    *)
(* pass, and no issue of that mechanism when it is pass.                   *)
(***************************************************************************)
CountIssues(P(_)) == Cardinality({i \in 1..Len(issues) : P(issues[i])})

IsFailureOf(M, issue) == StartsWith(issue, <<"F","a","l","h","a"," ","d","e"," ">> \o M \o <<":">>)

IsIssueOf(M, issue) == IsFailureOf(M, issue) \/ issue = not_found_issue(M)

VerdictIssueOk(M, verdict) ==
    LET failure(issue) == IsFailureOf(M, issue)
        any(issue) == IsIssueOf(M, issue)
        carries(issue) ==
            StartsWith(issue, <<"F","a","l","h","a"," ","d","e"," ">> \o M \o <<":"," ">> \o verdict[1].result \o <<" ","-"," ">>)
    IN  verdict # None =>
            IF verdict[1].result # <<"p","a","s","s">>
            THEN CountIssues(any) = 1 /\ CountIssues(carries) = 1
            ELSE CountIssues(any) = 0

C4_Example == <<"A","u","t","h","e","n","t","i","c","a","t","i","o","n","-","R","e","s","u","l","t","s",":"," ","s","p","f","=","p","a","s","s"," ","d","k","i","m","=","f","a","i","l"," ","d","m","a","r","c","=","p","a","s","s">>

\* C4: a set SPF, DKIM or DMARC verdict gives one failure issue when it is not pass
\* and no issue when it is pass
C4_VerdictIssues ==
    Analyzed =>
        /\ VerdictIssueOk(<<"S","P","F">>, authentication.spf)
        /\ VerdictIssueOk(<<"D","K","I","M">>, authentication.dkim)
        /\ VerdictIssueOk(<<"D","M","A","R","C">>, authentication.dmarc)
        /\ header_text = C4_Example =>
              /\ ResultOf(authentication.spf) = Some(<<"p","a","s","s">>)
              /\ ResultOf(authentication.dkim) = Some(<<"f","a","i","l">>)
              /\ ResultOf(authentication.dmarc) = Some(<<"p","a","s","s">>)
              /\ issues = << <<"F","a","l","h","a"," ","d","e"," ","D","K","I","M",":"," ","f","a","i","l"," ","-"," ">> >>

C4_Witness ==
    /\ pc = "done"
    /\ ResultOf(authentication.spf) = Some(<<"s","o","f","t","f","a","i","l">>)
    /\ ResultOf(authentication.dmarc) = Some(<<"f","a","i","l">>)
    /\ authentication.dkim = None
    /\ Len(issues) = 3

C4_WitnessExample ==
    /\ pc = "done"
    /\ header_text = C4_Example
    /\ Len(issues) = 1

(***************************************************************************)
(* C5. Alignment: one domain-mismatch issue naming both domains when a     *)
(* domain is found in both the From and the Return-Path value and the two  *)
(* differ as exact strings; none when a domain is missing or both are the  *)
(* same text.  The domain of a value is the run of [\w.-] characters after *)
(* the first @ that stands between two such characters.                    *)
(***************************************************************************)
RefDomain(value) ==
    IF value = None THEN None
    ELSE LET s == value[1]
             at == {a \in 2..(Len(s) - 1) :
                        s[a] = "@" /\ s[a - 1] \in AddrChars /\ s[a + 1] \in AddrChars}
         IN  IF at = {} THEN None
             ELSE Some(SubSeq(s, Min(at) + 1, Min(at) + RunLen(s, Min(at) + 1, AddrChars)))

IsMismatch(issue) == StartsWith(issue, <<"D","e","s","a","l","i","n","h","a","m","e","n","t","o"," ","d","e"," ">>)

\* C5: one mismatch issue naming both domains exactly when both are found and
\* differ as exact strings
C5_Alignment ==
    Analyzed =>
        LET fd == RefDomain(headers.from)
            rd == RefDomain(headers.return_path)
            named(issue) ==
                /\ IsMismatch(issue)
                /\ Contains(issue, <<"F","r","o","m"," ","(">> \o fd[1] \o <<")">>)
                /\ Contains(issue, <<"R","e","t","u","r","n","-","P","a","t","h"," ","(">> \o rd[1] \o <<")">>)
        IN  IF fd # None /\ rd # None /\ fd # rd
            THEN CountIssues(IsMismatch) = 1 /\ CountIssues(named) = 1
            ELSE CountIssues(IsMismatch) = 0

C5_Witness ==
    /\ pc = "done"
    /\ RefDomain(headers.from) = Some(<<"a",".","c","o","m">>)
    /\ RefDomain(headers.return_path) = Some(<<"b",".","c","o","m">>)
    /\ CountIssues(IsMismatch) = 1

C5_WitnessCase ==
    /\ pc = "done"
    /\ RefDomain(headers.from) = Some(<<"A",".","c","o","m">>)
    /\ RefDomain(headers.return_path) = Some(<<"a",".","c","o","m">>)
    /\ CountIssues(IsMismatch) = 1


(***************************************************************************)
(* The issues of a checker, by message                                     *)
(***************************************************************************)
IssuesOf(msgs) ==
    LET among(i) == i.msg \in msgs
    IN  SelectSeq(results.issues, among)

HasIssue(msg) == IssuesOf({msg}) # <<>>

FailedLookups == {i \in 1..Len(lookups) : ~lookups[i].ok}

LookupsOf(name) ==
    LET named(l) == l.name = name
    IN  SelectSeq(lookups, named)

\* both record types were tried for the selector and neither resolved
SelectorUnresolved(selector) ==
    LET L == LookupsOf(dkim_name(selector, domain))
    IN  Len(L) = 2 /\ ~L[1].ok /\ ~L[2].ok

\* the issues a lookup of the given name can add
LookupIssues(name) ==
    LET about(i) ==
            \/ name = domain /\ i.msg = SPF_ERROR
            \/ name = <<"_","d","m","a","r","c",".">> \o domain /\ i.msg = DMARC_ERROR
            \/ \E k \in 1..Len(Selectors) :
                  /\ name = dkim_name(Selectors[k], domain)
                  /\ i = Issue(DKIM_SELECTOR_NOT_FOUND, Selectors[k])
    IN  SelectSeq(results.issues, about)

\* the names and record types of the lookups made, failed CNAME lookups marked
LookupOrderOk ==
    LET step(k) == <<lookups[k].name, lookups[k].type>>
        dkim(k, selector) ==
            \* the lookups of one selector start at position k: CNAME, then TXT on failure
            /\ step(k) = <<dkim_name(selector, domain), "CNAME">>
            /\ ~lookups[k].ok => step(k + 1) = <<dkim_name(selector, domain), "TXT">>
        after(k) == IF lookups[k].ok THEN k + 1 ELSE k + 2
    IN  /\ Len(lookups) >= 4
        /\ step(1) = <<domain, "TXT">>
        /\ dkim(2, Selectors[1])
        /\ dkim(after(2), Selectors[2])
        /\ after(after(2)) = Len(lookups)
        /\ step(Len(lookups)) = <<<<"_","d","m","a","r","c",".">> \o domain, "TXT">>

AllEvaluated ==
    /\ results.recommendations.spf # None
    /\ results.records.dkim # None
    /\ results.recommendations.dkim # None
    /\ results.recommendations.dmarc # None
    /\ results.commands.bind9 # <<>>
    /\ results.commands.powershell # <<>>
    /\ results.commands.azure_cli # <<>>

(***************************************************************************)
(* C6 as stated: the lookups are made in the order SPF, selector1,         *)
(* selector2, DMARC; each failed lookup adds an entry to the issue list;   *)
(* every mechanism is evaluated and the run returns.                       *)
(***************************************************************************)
C6_EveryFailedLookupAddsIssue ==
    cpc = "done" =>
        /\ LookupOrderOk
        /\ \A i \in FailedLookups : LookupIssues(lookups[i].name) # <<>>
        /\ AllEvaluated

\* what a finished run of check_all shows: the lookup order, one issue per failed
\* SPF or DMARC lookup and per selector that resolved under neither record type
C6_Isolated ==
    cpc = "done" =>
        /\ LookupOrderOk
        /\ Len(LookupIssues(domain)) = IF lookups[1].ok THEN 0 ELSE 1
        /\ Len(LookupIssues(<<"_","d","m","a","r","c",".">> \o domain)) =
               IF lookups[Len(lookups)].ok THEN 0 ELSE 1
        /\ \A k \in 1..Len(Selectors) :
              Len(LookupIssues(dkim_name(Selectors[k], domain))) =
                  IF SelectorUnresolved(Selectors[k]) THEN 1 ELSE 0
        /\ AllEvaluated

(***************************************************************************)
(* C6 as amended: the lookups are made in the order SPF, selector1,        *)
(* selector2, DMARC; a failed SPF or DMARC lookup adds one error issue, a  *)
(* selector adds one not-found issue exactly when both its CNAME and its   *)
(* TXT lookup fail; every mechanism is evaluated, and the run always       *)
(* reaches command generation and returns.                                 *)
(***************************************************************************)
C6_FailureIsolation == [](C6_Isolated) /\ <>(cpc = "done")

C6_Witness ==
    /\ cpc = "done"
    /\ Len(lookups) = 6
    /\ FailedLookups = 1..6
    /\ AllEvaluated

(***************************************************************************)
(* C7. Multiple SPF records: two or more answer strings starting with      *)
(* v=spf1 give exactly one "multiple SPF records" issue, the chosen record *)
(* is the first of them in answer order, and the include and "all" checks  *)
(* are applied to that first one.                                          *)
(***************************************************************************)
IsSpfString(a) == MatchAt(a, 1, <<DQ>> \o <<"v","=","s","p","f","1">>)

RefSpfStrings ==
    LET A == answer[1].answers
    IN  {i \in 1..Len(A) : IsSpfString(A[i])}

RefFirstSpfString ==
    LET a == answer[1].answers[Min(RefSpfStrings)]
    IN  SubSeq(a, 2, Len(a) - 1)

\* C7: two or more v=spf1 strings give one multiple-records issue, the first is
\* chosen and the shape checks are applied to it
C7_MultipleSpf ==
    (cpc = "check_spf returned" /\ answer[1].ok /\ Cardinality(RefSpfStrings) >= 2) =>
        /\ Len(IssuesOf({SPF_MULTIPLE})) = 1
        /\ results.records.spf = Some(RefFirstSpfString)
        /\ results.issues =
               <<Issue(SPF_MULTIPLE, <<>>)>> \o spf_shape_issues(RefFirstSpfString)

C7_Witness ==
    /\ cpc = "check_spf returned"
    /\ answer[1].ok
    /\ Cardinality(RefSpfStrings) = 2
    /\ answer[1].answers[1] # answer[1].answers[2]
    /\ HasIssue(SPF_MULTIPLE)
    /\ HasIssue(SPF_NO_INCLUDE)

(***************************************************************************)
(* check_dkim when no selector resolves                                    *)
(***************************************************************************)
DkimChecked == cpc \in {"dmarc", "commands", "done"}

NoSelectorResolved == \A k \in 1..Len(Selectors) : SelectorUnresolved(Selectors[k])

DkimIssues ==
    IssuesOf({DKIM_SELECTOR_NOT_FOUND, DKIM_NONE_FOUND, DKIM_REQUIRES_TWO,
              DKIM_TENANT_PLACEHOLDER})

PlaceholderTargets ==
    /\ results.recommendations.dkim # None
    /\ Len(results.recommendations.dkim[1]) = 2
    /\ \A k \in 1..2 :
          results.recommendations.dkim[1][k].value =
              Selectors[k] \o <<"-">> \o ReplaceChar(domain, ".", "-")
                  \o <<".","_","d","o","m","a","i","n","k","e","y",".","t","e","n","a","n","t",".","o","n","m","i","c","r","o","s","o","f","t",".","c","o","m">>

(***************************************************************************)
(* C8 as stated: when neither record type resolves for either selector,    *)
(* check_dkim appends the two per-selector issues, then one "fewer than    *)
(* two selectors" issue, then one tenant-placeholder issue, and both       *)
(* recommendations target tenant.onmicrosoft.com.                          *)
(***************************************************************************)
C8_FewerThanTwoIssue ==
    (DkimChecked /\ NoSelectorResolved) =>
        /\ DkimIssues = << Issue(DKIM_SELECTOR_NOT_FOUND, Selectors[1]),
                           Issue(DKIM_SELECTOR_NOT_FOUND, Selectors[2]),
                           Issue(DKIM_REQUIRES_TWO, <<>>),
                           Issue(DKIM_TENANT_PLACEHOLDER, <<>>) >>
        /\ PlaceholderTargets

(***************************************************************************)
(* C8 as amended: when neither record type resolves for either selector,   *)
(* check_dkim appends the two per-selector issues, then one "no DKIM       *)
(* record found" issue (the "requires two records" issue is kept for       *)
(* exactly one selector found), then one tenant-placeholder issue, and     *)
(* both recommendations target tenant.onmicrosoft.com.                     *)
(***************************************************************************)
C8_NoSelectorFound ==
    (DkimChecked /\ NoSelectorResolved) =>
        /\ DkimIssues = << Issue(DKIM_SELECTOR_NOT_FOUND, Selectors[1]),
                           Issue(DKIM_SELECTOR_NOT_FOUND, Selectors[2]),
                           Issue(DKIM_NONE_FOUND, <<>>),
                           Issue(DKIM_TENANT_PLACEHOLDER, <<>>) >>
        /\ PlaceholderTargets

C8_Witness ==
    /\ cpc = "done"
    /\ NoSelectorResolved
    /\ Len(DkimIssues) = 4
    /\ PlaceholderTargets

(***************************************************************************)
(* C9. SPF shape checks: the missing-include issue is raised exactly when  *)
(* the chosen record does not contain include:spf.protection.outlook.com,  *)
(* the missing-"all" issue exactly when it does not end in ~all or -all.   *)
(***************************************************************************)
C9_SpfShape ==
    (cpc = "check_spf returned" /\ results.records.spf # None) =>
        LET r == results.records.spf[1]
        IN  /\ HasIssue(SPF_NO_INCLUDE)
                <=> ~Contains(r, <<"i","n","c","l","u","d","e",":","s","p","f",".","p","r","o","t","e","c","t","i","o","n",".","o","u","t","l","o","o","k",".","c","o","m">>)
            /\ HasIssue(SPF_NO_ALL)
                <=> ~(EndsWith(r, <<"~","a","l","l">>) \/ EndsWith(r, <<"-","a","l","l">>))

(***************************************************************************)
(* C10. DMARC checks are independent: for a found record the               *)
(* monitoring-only issue is raised exactly when the policy is none, the    *)
(* reporting issue exactly when there is no rua=mailto: address, the       *)
(* partial-enforcement issue exactly when pct (100 when absent) is below   *)
(* 100, in the order policy, rua, pct.  The policy of a record is the      *)
(* value of its tag named p.                                               *)
(***************************************************************************)
RECURSIVE SplitOn(_, _)
SplitOn(s, c) ==
    LET k == IndexFrom(s, 1, c)
    IN  IF k = 0 THEN <<s>>
        ELSE <<SubSeq(s, 1, k - 1)>> \o SplitOn(SubSeq(s, k + 1, Len(s)), c)

\* the value of the tag with the given name, or None
RefTag(dmarc_record, name) ==
    LET tags == MapSeq(Strip, SplitOn(dmarc_record, ";"))
        at == {i \in 1..Len(tags) : StartsWith(tags[i], name \o <<"=">>)}
    IN  IF at = {} THEN None
        ELSE Some(Strip(SubSeq(tags[Min(at)], Len(name) + 2, Len(tags[Min(at)]))))

RefPct(dmarc_record) ==
    LET t == RefTag(dmarc_record, <<"p","c","t">>)
    IN  IF t = None THEN 100 ELSE ParseInt(t[1])

RefDmarcIssues(dmarc_record) ==
    (IF RefTag(dmarc_record, <<"p">>) = Some(<<"n","o","n","e">>)
     THEN <<Issue(DMARC_POLICY_NONE, <<>>)>> ELSE <<>>)
    \o (IF ~re_rua_matches(dmarc_record) THEN <<Issue(DMARC_NO_RUA, <<>>)>> ELSE <<>>)
    \o (IF RefPct(dmarc_record) < 100
        THEN <<Issue(DMARC_PARTIAL, IntText(RefPct(dmarc_record)))>> ELSE <<>>)

\* C10: the policy, rua and pct issues of a found DMARC record are each raised
\* exactly when their own condition holds, in that order
C10_DmarcIndependent ==
    (cpc = "check_dmarc returned" /\ results.records.dmarc # None) =>
        IssuesOf({DMARC_POLICY_NONE, DMARC_NO_RUA, DMARC_PARTIAL})
            = RefDmarcIssues(results.records.dmarc[1])

(***************************************************************************)
(* C11. Command generation is repeatable: a second _generate_commands on   *)
(* the same checker leaves the recommendations and the three command lists *)
(* as the first invocation left them, nothing duplicated or accumulated.   *)
(***************************************************************************)
C11_Repeatable ==
    [][GenerateCommandsAgain =>
          /\ results'.recommendations = results.recommendations
          /\ results'.commands = results.commands]_vars

(***************************************************************************)
(* The commands of one platform list, by the recommendation they render    *)
(***************************************************************************)
SpfTemplates ==
    { "{domain}. IN TXT {spf}",
      "Add-DnsServerResourceRecord -ZoneName {domain} -Name @ -Txt {spf}",
      "az network dns record-set txt add-record -z {domain} -n @ -v {spf}" }

DkimTemplates ==
    { "{host}. IN CNAME {value}.",
      "New-DkimSigningConfig -DomainName {domain} -Selector{selector} {host}",
      "az network dns record-set cname set-record -z {domain} -n {selector}._domainkey -c {value}" }

DmarcTemplates ==
    { "_dmarc.{domain}. IN TXT {dmarc}",
      "Add-DnsServerResourceRecord -ZoneName {domain} -Name _dmarc -Txt {dmarc}",
      "az network dns record-set txt add-record -z {domain} -n _dmarc -v {dmarc}" }

Carries(c, text) == \E i \in 1..Len(c.args) : c.args[i] = text

\* the command renders the DKIM recommendation of selector number k
ForSelector(c, k) ==
    /\ c.template \in DkimTemplates
    /\ Carries(c, Selectors[k]) \/ Carries(c, dkim_name(Selectors[k], domain))

FourInOrder(list) ==
    /\ Len(list) = 4
    /\ list[1].template \in SpfTemplates
    /\ Carries(list[1], results.recommendations.spf[1])
    /\ ForSelector(list[2], 1)
    /\ ForSelector(list[3], 2)
    /\ list[4].template \in DmarcTemplates
    /\ Carries(list[4], results.recommendations.dmarc[1])

RecommendationsSet ==
    /\ results.recommendations.spf # None
    /\ results.recommendations.dkim # None
    /\ results.recommendations.dmarc # None

(***************************************************************************)
(* C12. Command list shape: after check_all on a fresh checker, whatever   *)
(* the resolver answered and also when no issue was raised, the SPF, DKIM  *)
(* and DMARC recommendations are all set and each platform list holds      *)
(* exactly four commands in the order SPF, selector1, selector2, DMARC.    *)
(***************************************************************************)
C12_CommandShape ==
    cpc = "done" =>
        /\ RecommendationsSet
        /\ FourInOrder(results.commands.bind9)
        /\ FourInOrder(results.commands.powershell)
        /\ FourInOrder(results.commands.azure_cli)

\* a finished run that raised no issue at all
C12_Witness ==
    /\ cpc = "done"
    /\ results.issues = <<>>
    /\ RecommendationsSet
    /\ Len(results.commands.bind9) = 4

(***************************************************************************)
(* What a finished main() run shows                                        *)
(***************************************************************************)
\* the except Exception handler has run
Failed == \E i \in 1..Len(stderr) : stderr[i].template = UNHANDLED

\* the lines of the report on standard output: all but the -v progress lines
ReportLines ==
    LET of_report(l) == l.template \notin {CHECKING_VERBOSE, EXPORTED_VERBOSE}
    IN  SelectSeq(stdout, of_report)

Exported == argv[1].output # None => argv[1].output[1] \in files

ExitCodesOk ==
    mpc = "returned" =>
        /\ Failed => exit_code = Some(1)
        /\ exit_code = Some(0) => stderr = <<>> /\ Exported /\ ReportLines # <<>>
        /\ exit_code \in {Some(0), Some(1)}

(***************************************************************************)
(* C13. Outermost failure handling in both main functions: a run in which  *)
(* an unexpected failure occurred returns 1, has the error on the error    *)
(* stream and has written no part of the report to standard output; a run  *)
(* returns 0 only when every step, the export included, succeeded.         *)
(***************************************************************************)
C13_NoPartialReport ==
    /\ ExitCodesOk
    /\ (mpc = "returned" /\ Failed) => ReportLines = <<>>

(***************************************************************************)
(* A mechanism without a signal: Authentication-Results occurrences are    *)
(* there, none of them holds a token of the mechanism and, for SPF, there  *)
(* is no Received-SPF field.                                               *)
(***************************************************************************)
Mechanisms ==
    { [label |-> <<"S","P","F">>, token |-> <<"s","p","f">>],
      [label |-> <<"D","K","I","M">>, token |-> <<"d","k","i","m">>],
      [label |-> <<"D","M","A","R","C">>, token |-> <<"d","m","a","r","c">>] }

VerdictOf(m) ==
    IF m.token = <<"s","p","f">> THEN authentication.spf
    ELSE IF m.token = <<"d","k","i","m">> THEN authentication.dkim
    ELSE authentication.dmarc

NoSignal(m) ==
    LET O == RefOccurrences
    IN  /\ O # <<>>
        /\ \A i \in 1..Len(O) : TokenStarts(O[i], m.token) = {}
        /\ m.token = <<"s","p","f">> => RefLast(<<"r","e","c","e","i","v","e","d","-","s","p","f">>) = None

IssuesAbout(m) ==
    LET about(issue) == IsIssueOf(m.label, issue)
    IN  SelectSeq(issues, about)

FailuresAbout(m) ==
    LET failure(issue) == IsFailureOf(m.label, issue)
    IN  SelectSeq(issues, failure)

FailedVerdict(m) == VerdictOf(m) # None /\ VerdictOf(m)[1].result # <<"p","a","s","s">>

(***************************************************************************)
(* C14 as stated: a mechanism without a signal gets no verdict and no      *)
(* issue; an issue of a mechanism appears only when its verdict is set     *)
(* with a result other than pass.                                          *)
(***************************************************************************)
C14_AbsentSilent ==
    Analyzed =>
        \A m \in Mechanisms :
            /\ NoSignal(m) => VerdictOf(m) = None /\ IssuesAbout(m) = <<>>
            /\ IssuesAbout(m) # <<>> => FailedVerdict(m)

(***************************************************************************)
(* C14 as amended: a mechanism without a signal gets no verdict and        *)
(* exactly one issue, the one saying the mechanism was not found in the    *)
(* headers; a failure issue of a mechanism appears only when its verdict   *)
(* is set with a result other than pass.                                   *)
(***************************************************************************)
C14_AbsentNotFound ==
    Analyzed =>
        \A m \in Mechanisms :
            /\ NoSignal(m) =>
                  VerdictOf(m) = None /\ IssuesAbout(m) = <<not_found_issue(m.label)>>
            /\ FailuresAbout(m) # <<>> => FailedVerdict(m)

\* occurrences are there and none holds a token of any of the three mechanisms
C14_Witness ==
    /\ pc = "done"
    /\ \A m \in Mechanisms : NoSignal(m) /\ IssuesAbout(m) = <<not_found_issue(m.label)>>

(***************************************************************************)
(* The v=DMARC1 strings of the answer given to check_dmarc                 *)
(***************************************************************************)
IsDmarcString(a) == MatchAt(a, 1, <<DQ>> \o <<"v","=","D","M","A","R","C","1">>)

RefDmarcStrings ==
    LET A == answer[1].answers
    IN  {i \in 1..Len(A) : IsDmarcString(A[i])}

RefFirstDmarcString ==
    LET a == answer[1].answers[Min(RefDmarcStrings)]
    IN  SubSeq(a, 2, Len(a) - 1)

\* the messages check_dmarc has for the validation of one record
DmarcValidationMessages ==
    {DMARC_NOT_FOUND, DMARC_NO_POLICY, DMARC_POLICY_NONE, DMARC_NO_RUA, DMARC_PARTIAL,
     DMARC_ERROR}

\* the issues that report something else than the validation of one record
MultiplicityIssues ==
    LET other(issue) == issue.msg \notin DmarcValidationMessages
    IN  SelectSeq(results.issues, other)

(***************************************************************************)
(* C15. DMARC multiplicity is reported: two or more answer strings         *)
(* starting with v=DMARC1 give an issue reporting the multiple records,    *)
(* and validation continues with the first of them.                        *)
(***************************************************************************)
C15_MultipleDmarc ==
    (cpc = "check_dmarc returned" /\ answer[1].ok /\ Cardinality(RefDmarcStrings) >= 2) =>
        /\ MultiplicityIssues # <<>>
        /\ results.records.dmarc = Some(RefFirstDmarcString)

(***************************************************************************)
(* The explanation that belongs to the token a result is taken from: the   *)
(* content of the first parenthesized group after the first match of       *)
(* M=<result>, unless the token of another mechanism stands between them.  *)
(***************************************************************************)
MechanismTokens == { <<"s","p","f">>, <<"d","k","i","m">>, <<"d","m","a","r","c">>, <<"a","r","c">> }

RefExplanation(o, mech) ==
    LET i == Min(mech_starts(o, mech))
        e == i + Len(mech) + 1 + RunLen(o, i + Len(mech) + 1, WordChars)
        opens == {p \in e..Len(o) : o[p] = "(" /\ IndexFrom(o, p + 1, ")") # 0}
    IN  IF opens = {} THEN <<>>
        ELSE LET p == Min(opens)
                 others == UNION {mech_starts(o, t) : t \in MechanismTokens}
             IN  IF \E k \in others : e <= k /\ k < p THEN <<>>
                 ELSE SubSeq(o, p + 1, IndexFrom(o, p + 1, ")") - 1)

TakenFrom(o, mech) ==
    /\ mech_starts(o, mech) # {}
    /\ mech = <<"s","p","f">> => authentication.spf = None

VerdictAfter(mech) ==
    IF mech = <<"s","p","f">> THEN authentication.spf'
    ELSE IF mech = <<"d","k","i","m">> THEN authentication.dkim'
    ELSE IF mech = <<"d","m","a","r","c">> THEN authentication.dmarc'
    ELSE authentication.arc'

ExplanationsBound ==
    LET o == headers.authentication_results[occ]
    IN  \A mech \in MechanismTokens :
            TakenFrom(o, mech) =>
                VerdictAfter(mech)[1].explanation = RefExplanation(o, mech)

(***************************************************************************)
(* C16. Explanation binding: the explanation stored with the verdict an    *)
(* occurrence gives for a mechanism is the content of the first            *)
(* parenthesized group after the token the result was taken from, empty    *)
(* when there is none, and never the parenthetical of another token.       *)
(***************************************************************************)
C16_ExplanationBinding == [][ExtractFromAuthenticationResults => ExplanationsBound]_vars

(***************************************************************************)
(* C17. DMARC policy identification: the policy checks of a found record   *)
(* use the value of the record's own tag named p: no monitoring-only issue *)
(* unless that value is none, and no "policy not specified" issue when the *)
(* record has the tag.                                                     *)
(***************************************************************************)
C17_PolicyTag ==
    (cpc = "check_dmarc returned" /\ results.records.dmarc # None) =>
        LET policy == RefTag(results.records.dmarc[1], <<"p">>)
        IN  /\ HasIssue(DMARC_POLICY_NONE) <=> policy = Some(<<"n","o","n","e">>)
            /\ policy # None => ~HasIssue(DMARC_NO_POLICY)

(***************************************************************************)
(* The tenant a found selector names: its record was resolved as a CNAME   *)
(* and the target, less one trailing dot, ends in the labels               *)
(* ..._domainkey, <label>, onmicrosoft, com.                               *)
(***************************************************************************)
RefTenant(f) ==
    LET t == f.record
        s == IF t # <<>> /\ t[Len(t)] = "." THEN SubSeq(t, 1, Len(t) - 1) ELSE t
        labels == SplitOn(s, ".")
        n == Len(labels)
    IN  IF /\ f.type = "CNAME"
           /\ n >= 4
           /\ labels[n] = <<"c","o","m">>
           /\ labels[n - 1] = <<"o","n","m","i","c","r","o","s","o","f","t">>
           /\ labels[n - 2] # <<>>
           /\ EndsWith(labels[n - 3], <<"_","d","o","m","a","i","n","k","e","y">>)
        THEN Some(labels[n - 2] \o <<".","o","n","m","i","c","r","o","s","o","f","t",".","c","o","m">>)
        ELSE None

Qualifying ==
    {k \in 1..Len(found_selectors) : RefTenant(found_selectors[k]) # None}

RefTenantDomain ==
    IF Qualifying = {} THEN <<"t","e","n","a","n","t",".","o","n","m","i","c","r","o","s","o","f","t",".","c","o","m">>
    ELSE RefTenant(found_selectors[Min(Qualifying)])[1]

(***************************************************************************)
(* C18. Tenant inference: both recommended CNAME targets use the tenant of *)
(* the first found selector, in selector order, resolved as a CNAME whose  *)
(* target names a tenant; when there is none they use the placeholder and  *)
(* exactly one placeholder issue is appended, otherwise none; each target  *)
(* is <selector>-<domain dashed>._domainkey.<tenant>.                      *)
(***************************************************************************)
C18_TenantInference ==
    DkimChecked =>
        /\ results.recommendations.dkim # None
        /\ Len(results.recommendations.dkim[1]) = 2
        /\ \A k \in 1..2 :
              results.recommendations.dkim[1][k].value =
                  Selectors[k] \o <<"-">> \o ReplaceChar(domain, ".", "-")
                      \o <<".","_","d","o","m","a","i","n","k","e","y",".">> \o RefTenantDomain
        /\ Len(IssuesOf({DKIM_TENANT_PLACEHOLDER})) = IF Qualifying = {} THEN 1 ELSE 0

\* both selectors resolved as CNAMEs that name different tenants
C18_Witness ==
    /\ cpc = "done"
    /\ Qualifying = {1, 2}
    /\ RefTenant(found_selectors[1]) # RefTenant(found_selectors[2])
    /\ RefTenantDomain = <<"c","o","n","t","o","s","o",".","o","n","m","i","c","r","o","s","o","f","t",".","c","o","m">>
    /\ ~HasIssue(DKIM_TENANT_PLACEHOLDER)

\* a selector found only as TXT and one whose CNAME names no tenant
C18_WitnessPlaceholder ==
    /\ cpc = "done"
    /\ Len(found_selectors) = 2
    /\ found_selectors[1].type = "TXT"
    /\ found_selectors[2].type = "CNAME"
    /\ Qualifying = {}
    /\ HasIssue(DKIM_TENANT_PLACEHOLDER)

(***************************************************************************)
(* The recommendations of the header analyzer, by mechanism                *)
(***************************************************************************)
RecommendationsFor(m) ==
    LET tags == IF m.token = <<"s","p","f">>
                THEN {"Verifique seu registro SPF", "Registro SPF recomendado"}
                ELSE IF m.token = <<"d","k","i","m">> THEN {"Verifique se o DKIM esta habilitado"}
                ELSE {"Configure um registro DMARC"}
        about(r) == r[1] \in tags
    IN  SelectSeq(recommendations, about)

AllPass == \A m \in Mechanisms : ResultOf(VerdictOf(m)) = Some(<<"p","a","s","s">>)

(***************************************************************************)
(* C19. Recommendations follow the mechanism's own verdict: one for a      *)
(* mechanism is emitted only if its verdict is unset or not pass and a     *)
(* From domain was extracted, whatever the issues of the others say, and   *)
(* none at all is emitted when the three verdicts are pass.                *)
(***************************************************************************)
C19_OwnVerdict ==
    pc = "done" =>
        /\ \A m \in Mechanisms :
              RecommendationsFor(m) # <<>> =>
                  /\ ResultOf(VerdictOf(m)) # Some(<<"p","a","s","s">>)
                  /\ RefDomain(headers.from) # None
        /\ AllPass => recommendations = <<>>

====
